---- MODULE Spec2Model ----
(***************************************************************************)
(* Model of the aries solver kernel:                                       *)
(*   - IncSTN, the incremental simple temporal network of stn/src/cesta.rs *)
(*     (trail, activation queue, Cesta96 propagation, cycle extraction);   *)
(*   - the DPLL(T) drivers of smt/src/lib.rs.                              *)
(* Identifiers (nodes, edges) are 0-based as in the source; the vectors    *)
(* are TLA+ sequences, so vector index i is sequence index i + 1.          *)
(***************************************************************************)
EXTENDS Integers, Sequences, FiniteSets, TLC

VARIABLES
    stn,          \* the IncSTN object (a record of its fields)
    status,       \* result of the last propagate_all: "None", "Consistent", "Inconsistent", "Abort"
    last_op,      \* the last operation: "new", "edit", "propagate_all" or "undo"
    undo_result,  \* value returned by the last undo_to_last_backtrack_point (NoEdge for None)
    snaps,        \* history: what was observable at each outstanding set_backtrack_point
    undone,       \* history: the snapshot matched by the last undo (<<>> when there was none)
    marked,       \* history: edges marked active whose marking was not undone
    client,       \* what the program using the network may call it with (never changes)
    mapping,      \* SMTSolver.mapping: the Mapping between literals and theory atoms
    sat,          \* SMTSolver.sat: the CDCL engine
    theory,       \* SMTSolver.theory: the theory behind the Theory interface
    driver,       \* position of solve_eager / lazy_dpll_t in its loop, and what it holds
    heur          \* the CDCL engine's Heur: activities, var_inc and the heap of variables

stn_vars == <<stn, status, last_op, undo_result, snaps, undone, marked, client>>

smt_vars == <<mapping, sat, theory, driver, heur>>

vars == <<stn, status, last_op, undo_result, snaps, undone, marked, client,
          mapping, sat, theory, driver, heur>>

----------------------------------------------------------------------------
(* Bounds of the exploration *)

MaxNodes == 3        \* nodes of a network, origin included
MaxUserEdges == 2    \* constraints added by add_edge / add_inactive_edge
MaxLevel == 2        \* backtrack points ever set (the level counter only grows)
MaxLooseLevel == 1   \* the same, for a client that sets them at any time
MaxPending == 2      \* length of the activation queue
MaxActivations == 6  \* NewPendingActivation events on the trail

\* domains [lb, ub] offered to add_node (it refuses the second)
Domains == {<<0, 2>>, <<2, 0>>}
\* edges <<source, target, weight>> offered to add_edge: with nodes a = 1 and
\* b = 2 in [0, 2], 0->a = 1 with a->b = -2 is a negative cycle through the
\* origin, a->b = -2 with b->a = 1 one that avoids it, a->a = -2 a self loop
EdgeMenu == {<<0, 1, 1>>, <<1, 2, -2>>, <<2, 1, 1>>, <<1, 1, -2>>}
\* edges offered to add_inactive_edge
InactiveMenu == {<<2, 1, 1>>}

----------------------------------------------------------------------------
(* Option<Edge>::None, and the origin *)

NoEdge == -1
origin == 0

----------------------------------------------------------------------------
(* Trail events *)

Event(tag, lvl, edge, node, previous_dist, previous_cause) ==
    [tag |-> tag, lvl |-> lvl, edge |-> edge, node |-> node,
     previous_dist |-> previous_dist, previous_cause |-> previous_cause]

Level(l) == Event("Level", l, NoEdge, 0, 0, NoEdge)
NodeAdded == Event("NodeAdded", 0, NoEdge, 0, 0, NoEdge)
EdgeAdded == Event("EdgeAdded", 0, NoEdge, 0, 0, NoEdge)
NewPendingActivation == Event("NewPendingActivation", 0, NoEdge, 0, 0, NoEdge)
EdgeActivated(e) == Event("EdgeActivated", 0, e, 0, 0, NoEdge)
ForwardUpdate(n, d, c) == Event("ForwardUpdate", 0, NoEdge, n, d, c)
BackwardUpdate(n, d, c) == Event("BackwardUpdate", 0, NoEdge, n, d, c)

----------------------------------------------------------------------------
(* Accessors *)

Constraint(internal, active, source, target, weight) ==
    [internal |-> internal, active |-> active, source |-> source,
     target |-> target, weight |-> weight]

num_nodes(st) == Len(st.active_forward_edges)
num_edges(st) == Len(st.constraints)
lb(st, node) == -st.distances[node + 1].backward
ub(st, node) == st.distances[node + 1].forward
fdist(st, n) == st.distances[n + 1].forward
bdist(st, n) == st.distances[n + 1].backward
weight(st, e) == st.constraints[e + 1].weight
active(st, e) == st.constraints[e + 1].active
source(st, e) == st.constraints[e + 1].source
target(st, e) == st.constraints[e + 1].target
internal(st, e) == st.constraints[e + 1].internal

SeqToSet(q) == {q[i] : i \in DOMAIN q}

Pop(s) == IF s = <<>> THEN s ELSE SubSeq(s, 1, Len(s) - 1)

----------------------------------------------------------------------------
(* Construction *)

add_constraint(st, c) ==
    [st EXCEPT !.constraints = Append(@, c), !.trail = Append(@, EdgeAdded)]

mark_active(st, edge) ==
    [st EXCEPT !.pending_activations = Append(@, edge),
               !.trail = Append(@, NewPendingActivation)]

\* assert!(lb <= ub)
AssertNothing(lo, hi) == TRUE
AssertBounds(lo, hi) == lo <= hi

add_node_unnegated(st, lo, hi) ==
    LET id == num_nodes(st)
        s1 == [st EXCEPT !.active_forward_edges = Append(@, <<>>),
                         !.active_backward_edges = Append(@, <<>>),
                         !.trail = Append(@, NodeAdded)]
        fwd_edge == num_edges(s1)
        s2 == add_constraint(s1, Constraint(TRUE, FALSE, origin, id, hi))
        bwd_edge == num_edges(s2)
        s3 == add_constraint(s2, Constraint(TRUE, FALSE, id, origin, -lo))
        s4 == mark_active(mark_active(s3, fwd_edge), bwd_edge)
    IN  [s4 EXCEPT !.distances = Append(@,
            [forward |-> hi, forward_cause |-> fwd_edge,
             forward_pending_update |-> FALSE,
             backward |-> lo, backward_cause |-> bwd_edge,
             backward_pending_update |-> FALSE])]

add_node(st, lo, hi) ==
    LET id == num_nodes(st)
        s1 == [st EXCEPT !.active_forward_edges = Append(@, <<>>),
                         !.active_backward_edges = Append(@, <<>>),
                         !.trail = Append(@, NodeAdded)]
        fwd_edge == num_edges(s1)
        s2 == add_constraint(s1, Constraint(TRUE, FALSE, origin, id, hi))
        bwd_edge == num_edges(s2)
        s3 == add_constraint(s2, Constraint(TRUE, FALSE, id, origin, -lo))
        s4 == mark_active(mark_active(s3, fwd_edge), bwd_edge)
    IN  [s4 EXCEPT !.distances = Append(@,
            [forward |-> hi, forward_cause |-> fwd_edge,
             forward_pending_update |-> FALSE,
             backward |-> -lo, backward_cause |-> bwd_edge,
             backward_pending_update |-> FALSE])]

add_inactive_edge(st, s, t, w) ==
    add_constraint(st, Constraint(FALSE, FALSE, s, t, w))

add_edge(st, s, t, w) ==
    mark_active(add_inactive_edge(st, s, t, w), num_edges(st))

\* The same operations with their assertions: the outcome of a call is the
\* network it leaves behind and whether it panicked on the way.
Outcome(st, panic) == [st |-> st, panic |-> panic]

\* assert!(c.source < self.num_nodes() && c.target < self.num_nodes())
AssertRecorded(st, c) == c.source < num_nodes(st) /\ c.target < num_nodes(st)

add_constraint_late(st, c) ==
    Outcome(add_constraint(st, c), ~AssertRecorded(st, c))

add_constraint_or_panic(st, c) ==
    IF AssertRecorded(st, c) THEN Outcome(add_constraint(st, c), FALSE)
    ELSE Outcome(st, TRUE)

add_node_or_panic(st, lo, hi) ==
    IF ~AssertBounds(lo, hi) THEN Outcome(st, TRUE)
    ELSE LET id == num_nodes(st)
             s1 == [st EXCEPT !.active_forward_edges = Append(@, <<>>),
                              !.active_backward_edges = Append(@, <<>>),
                              !.trail = Append(@, NodeAdded)]
             r2 == add_constraint_or_panic(s1, Constraint(TRUE, FALSE, origin, id, hi))
             r3 == add_constraint_or_panic(r2.st, Constraint(TRUE, FALSE, id, origin, -lo))
         IN  IF r2.panic THEN r2
             ELSE IF r3.panic THEN r3
             ELSE Outcome(add_node(st, lo, hi), FALSE)

add_inactive_edge_or_panic(st, s, t, w) ==
    add_constraint_or_panic(st, Constraint(FALSE, FALSE, s, t, w))

add_edge_or_panic(st, s, t, w) ==
    LET r == add_inactive_edge_or_panic(st, s, t, w)
    IN  IF r.panic THEN r ELSE Outcome(mark_active(r.st, num_edges(st)), FALSE)

new_undoable ==
    add_node([constraints |-> <<>>, active_forward_edges |-> <<>>,
              active_backward_edges |-> <<>>, distances |-> <<>>,
              trail |-> <<>>, pending_activations |-> <<>>,
              level |-> 0, explanation |-> <<>>], 0, 0)

new ==
    LET empty == [constraints |-> <<>>, active_forward_edges |-> <<>>,
                  active_backward_edges |-> <<>>, distances |-> <<>>,
                  trail |-> <<>>, pending_activations |-> <<>>,
                  level |-> 0, explanation |-> <<>>]
    IN  [add_node(empty, 0, 0) EXCEPT !.trail = <<>>]

----------------------------------------------------------------------------
(* Cycle extraction.  A walk follows cause pointers; one that takes more    *)
(* steps than there are nodes has come back to a node it left and never     *)
(* ends, and a missing cause or a failed debug assertion panics: all three  *)
(* are the outcome "Abort".                                                 *)

ExplainAll(expl, st, e) == Append(expl, e)
Explain(expl, st, e) == IF ~internal(st, e) THEN Append(expl, e) ELSE expl

RECURSIVE WalkBackwardCauses(_, _, _, _, _, _)
WalkBackwardCauses(st, expl, current, stop, start, fuel) ==
    LET next_constraint_id == st.distances[current + 1].backward_cause IN
    IF next_constraint_id = NoEdge \/ fuel = 0
    THEN [explanation |-> expl, end |-> "Abort"]
    ELSE LET expl1 == Explain(expl, st, next_constraint_id)
             cur1 == target(st, next_constraint_id)
         IN  IF cur1 = stop THEN [explanation |-> expl1, end |-> "return"]
             ELSE IF cur1 = origin THEN [explanation |-> expl1, end |-> "break"]
             ELSE IF cur1 = start THEN [explanation |-> expl1, end |-> "Abort"]
             ELSE WalkBackwardCauses(st, expl1, cur1, stop, start, fuel - 1)

RECURSIVE WalkForwardCauses(_, _, _, _, _, _)
WalkForwardCauses(st, expl, current, stop, start, fuel) ==
    LET next_constraint_id == st.distances[current + 1].forward_cause IN
    IF next_constraint_id = NoEdge \/ fuel = 0
    THEN [explanation |-> expl, end |-> "Abort"]
    ELSE LET expl1 == Explain(expl, st, next_constraint_id)
             cur1 == source(st, next_constraint_id)
         IN  IF cur1 = stop THEN [explanation |-> expl1, end |-> "return"]
             ELSE IF cur1 = origin THEN [explanation |-> expl1, end |-> "break"]
             ELSE IF cur1 = start THEN [explanation |-> expl1, end |-> "Abort"]
             ELSE WalkForwardCauses(st, expl1, cur1, stop, start, fuel - 1)

\* explanation.clear(); explanation.push(edge)
StartExplanationEmpty(st, edge) == <<>>
StartExplanationKeep(st, edge) == Append(st.explanation, edge)
StartExplanation(st, edge) == <<edge>>

\* In the first loop only `source` (resp. `target`) and the origin end the
\* walk; in the second only the origin does, and meeting the start node
\* again fails the debug assertion.  NoEdge as a node matches no node.
extract_cycle_backward(st, edge) ==
    LET s == source(st, edge)
        t == target(st, edge)
        w1 == WalkBackwardCauses(st, StartExplanation(st, edge), t, s, NoEdge, num_nodes(st))
        w2 == WalkForwardCauses(st, w1.explanation, s, origin, s, num_nodes(st))
        w == IF w1.end = "break" THEN w2 ELSE w1
    IN  [st |-> [st EXCEPT !.explanation = w.explanation],
         status |-> IF w.end = "Abort" THEN "Abort" ELSE "Inconsistent"]

extract_cycle_forward(st, edge) ==
    LET s == source(st, edge)
        t == target(st, edge)
        w1 == WalkForwardCauses(st, StartExplanation(st, edge), s, t, NoEdge, num_nodes(st))
        w2 == WalkBackwardCauses(st, w1.explanation, t, origin, s, num_nodes(st))
        w == IF w1.end = "break" THEN w2 ELSE w1
    IN  [st |-> [st EXCEPT !.explanation = w.explanation],
         status |-> IF w.end = "Abort" THEN "Abort" ELSE "Inconsistent"]

----------------------------------------------------------------------------
(* Propagation [Cesta96] *)

ImprovesNever(candidate, previous) == FALSE
Improves(candidate, previous) == candidate < previous

Violates(candidate, opposite) == candidate + opposite < 0

Enqueue(r, n) ==
    IF n \in r.in_queue THEN r
    ELSE [r EXCEPT !.queue = Append(@, n), !.in_queue = @ \cup {n}]

ForwardStepKeepCause(st, out_edge) ==
    [st EXCEPT
        !.trail = Append(@, ForwardUpdate(target(st, out_edge),
                             fdist(st, target(st, out_edge)),
                             st.distances[target(st, out_edge) + 1].forward_cause)),
        !.distances[target(st, out_edge) + 1] =
            [@ EXCEPT !.forward = fdist(st, source(st, out_edge)) + weight(st, out_edge),
                      !.forward_pending_update = TRUE]]

ForwardStep(st, out_edge) ==
    [st EXCEPT
        !.trail = Append(@, ForwardUpdate(target(st, out_edge),
                             fdist(st, target(st, out_edge)),
                             st.distances[target(st, out_edge) + 1].forward_cause)),
        !.distances[target(st, out_edge) + 1] =
            [@ EXCEPT !.forward = fdist(st, source(st, out_edge)) + weight(st, out_edge),
                      !.forward_cause = out_edge,
                      !.forward_pending_update = TRUE]]

BackwardStep(st, in_edge) ==
    [st EXCEPT
        !.trail = Append(@, BackwardUpdate(source(st, in_edge),
                             bdist(st, source(st, in_edge)),
                             st.distances[source(st, in_edge) + 1].backward_cause)),
        !.distances[source(st, in_edge) + 1] =
            [@ EXCEPT !.backward = bdist(st, target(st, in_edge)) + weight(st, in_edge),
                      !.backward_cause = in_edge,
                      !.backward_pending_update = TRUE]]

\* the loop over active_forward_edges[u], from its k-th entry on
RECURSIVE RelaxForward(_, _, _)
RelaxForward(r, u, k) ==
    IF k > Len(r.st.active_forward_edges[u + 1]) THEN r
    ELSE LET out_edge == r.st.active_forward_edges[u + 1][k]
             previous == fdist(r.st, target(r.st, out_edge))
             candidate == fdist(r.st, source(r.st, out_edge)) + weight(r.st, out_edge)
         IN  IF Improves(candidate, previous)
             THEN IF Violates(candidate, bdist(r.st, target(r.st, out_edge)))
                  THEN LET x == extract_cycle_backward(r.st, out_edge)
                       IN  [r EXCEPT !.st = x.st, !.status = x.status]
                  ELSE RelaxForward(
                         Enqueue([r EXCEPT !.st = ForwardStep(r.st, out_edge)],
                                 target(r.st, out_edge)), u, k + 1)
             ELSE RelaxForward(r, u, k + 1)

\* the loop over active_backward_edges[u], from its k-th entry on
RECURSIVE RelaxBackward(_, _, _)
RelaxBackward(r, u, k) ==
    IF k > Len(r.st.active_backward_edges[u + 1]) THEN r
    ELSE LET in_edge == r.st.active_backward_edges[u + 1][k]
             previous == bdist(r.st, source(r.st, in_edge))
             candidate == bdist(r.st, target(r.st, in_edge)) + weight(r.st, in_edge)
         IN  IF Improves(candidate, previous)
             THEN IF Violates(candidate, fdist(r.st, source(r.st, in_edge)))
                  THEN LET x == extract_cycle_forward(r.st, in_edge)
                       IN  [r EXCEPT !.st = x.st, !.status = x.status]
                  ELSE RelaxBackward(
                         Enqueue([r EXCEPT !.st = BackwardStep(r.st, in_edge)],
                                 source(r.st, in_edge)), u, k + 1)
             ELSE RelaxBackward(r, u, k + 1)

ClearPending(st, u) ==
    [st EXCEPT !.distances[u + 1] =
        [@ EXCEPT !.forward_pending_update = FALSE,
                  !.backward_pending_update = FALSE]]

\* the `while let Some(u) = queue.pop_front()` loop
RECURSIVE PropagateLoop(_)
PropagateLoop(r) ==
    IF r.queue = <<>> THEN [st |-> r.st, status |-> "Consistent"]
    ELSE LET u == Head(r.queue)
             r0 == [r EXCEPT !.queue = Tail(@), !.in_queue = @ \ {u}]
             r1 == IF r0.st.distances[u + 1].forward_pending_update
                   THEN RelaxForward(r0, u, 1) ELSE r0
             r2 == IF r1.st.distances[u + 1].backward_pending_update
                   THEN RelaxBackward(r1, u, 1) ELSE r1
         IN  IF r1.status # "Consistent" THEN [st |-> r1.st, status |-> r1.status]
             ELSE IF r2.status # "Consistent" THEN [st |-> r2.st, status |-> r2.status]
             ELSE PropagateLoop([r2 EXCEPT !.st = ClearPending(r2.st, u)])

SeedPending(st, i, j) ==
    [st EXCEPT !.distances =
        [n \in DOMAIN st.distances |->
            IF n = i + 1 \/ n = j + 1
            THEN [st.distances[n] EXCEPT !.forward_pending_update = TRUE,
                                         !.backward_pending_update = TRUE]
            ELSE st.distances[n]]]

propagate(st, edge) ==
    LET i == source(st, edge)
        j == target(st, edge)
    IN  PropagateLoop([st |-> SeedPending(st, i, j), queue |-> <<i, j>>,
                       in_queue |-> {i, j}, status |-> "Consistent"])

ActivateUnlisted(st, edge) ==
    [st EXCEPT !.constraints[edge + 1].active = TRUE,
               !.trail = Append(@, EdgeActivated(edge))]

ActivateUnflagged(st, edge) ==
    [st EXCEPT !.active_forward_edges[source(st, edge) + 1] = Append(@, edge),
               !.active_backward_edges[target(st, edge) + 1] = Append(@, edge),
               !.trail = Append(@, EdgeActivated(edge))]

Activate(st, edge) ==
    [st EXCEPT !.constraints[edge + 1].active = TRUE,
               !.active_forward_edges[source(st, edge) + 1] = Append(@, edge),
               !.active_backward_edges[target(st, edge) + 1] = Append(@, edge),
               !.trail = Append(@, EdgeActivated(edge))]

SelfLoopIgnored(st, edge) == FALSE
SelfLoopNonPositive(st, edge) == weight(st, edge) <= 0
SelfLoopInconsistent(st, edge) == weight(st, edge) < 0

\* the same loop taking the entry marked last (pop_back)
RECURSIVE propagate_all_lifo(_)
propagate_all_lifo(st) ==
    IF st.pending_activations = <<>> THEN [st |-> st, status |-> "Consistent"]
    ELSE LET edge == st.pending_activations[Len(st.pending_activations)]
             s0 == [st EXCEPT !.pending_activations = Pop(@)]
         IN  IF source(s0, edge) = target(s0, edge)
             THEN IF SelfLoopInconsistent(s0, edge)
                  THEN [st |-> [s0 EXCEPT !.explanation = StartExplanation(s0, edge)],
                        status |-> "Inconsistent"]
                  ELSE propagate_all_lifo(s0)
             ELSE IF ~active(s0, edge)
                  THEN LET r == propagate(Activate(s0, edge), edge)
                       IN  IF r.status = "Consistent" THEN propagate_all_lifo(r.st) ELSE r
                  ELSE propagate_all_lifo(s0)

\* the same loop without the test of the active flag
RECURSIVE propagate_all_again(_)
propagate_all_again(st) ==
    IF st.pending_activations = <<>> THEN [st |-> st, status |-> "Consistent"]
    ELSE LET edge == Head(st.pending_activations)
             s0 == [st EXCEPT !.pending_activations = Tail(@)]
         IN  IF source(s0, edge) = target(s0, edge)
             THEN IF SelfLoopInconsistent(s0, edge)
                  THEN [st |-> [s0 EXCEPT !.explanation = StartExplanation(s0, edge)],
                        status |-> "Inconsistent"]
                  ELSE propagate_all_again(s0)
             ELSE LET r == propagate(Activate(s0, edge), edge)
                  IN  IF r.status = "Consistent" THEN propagate_all_again(r.st) ELSE r

RECURSIVE propagate_all(_)
propagate_all(st) ==
    IF st.pending_activations = <<>> THEN [st |-> st, status |-> "Consistent"]
    ELSE LET edge == Head(st.pending_activations)
             s0 == [st EXCEPT !.pending_activations = Tail(@)]
         IN  IF source(s0, edge) = target(s0, edge)
             THEN IF SelfLoopInconsistent(s0, edge)
                  THEN [st |-> [s0 EXCEPT !.explanation = StartExplanation(s0, edge)],
                        status |-> "Inconsistent"]
                  ELSE propagate_all(s0)
             ELSE IF ~active(s0, edge)
                  THEN LET r == propagate(Activate(s0, edge), edge)
                       IN  IF r.status = "Consistent" THEN propagate_all(r.st) ELSE r
                  ELSE propagate_all(s0)

----------------------------------------------------------------------------
(* Backtracking *)

set_backtrack_point_stale(st) ==
    [st EXCEPT !.level = @ + 1, !.trail = Append(@, Level(st.level))]

set_backtrack_point(st) ==
    [st EXCEPT !.level = @ + 1, !.trail = Append(@, Level(st.level + 1))]

UndoNodeAdded(st) ==
    [st EXCEPT !.active_forward_edges = Pop(@),
               !.active_backward_edges = Pop(@),
               !.distances = Pop(@)]

UndoEdgeAdded(st) == [st EXCEPT !.constraints = Pop(@)]

UndoNewPendingActivation(st) == [st EXCEPT !.pending_activations = Pop(@)]

UndoEdgeActivatedFront(st, e) ==
    [st EXCEPT !.active_forward_edges[source(st, e) + 1] = Tail(@),
               !.active_backward_edges[target(st, e) + 1] = Pop(@),
               !.constraints[e + 1].active = FALSE]

UndoEdgeActivatedKeepFlag(st, e) ==
    [st EXCEPT !.active_forward_edges[source(st, e) + 1] = Pop(@),
               !.active_backward_edges[target(st, e) + 1] = Pop(@)]

UndoEdgeActivated(st, e) ==
    [st EXCEPT !.active_forward_edges[source(st, e) + 1] = Pop(@),
               !.active_backward_edges[target(st, e) + 1] = Pop(@),
               !.constraints[e + 1].active = FALSE]

UndoForwardUpdate(st, ev) ==
    [st EXCEPT !.distances[ev.node + 1] =
        [@ EXCEPT !.forward = ev.previous_dist,
                  !.forward_cause = ev.previous_cause]]

UndoBackwardUpdateAsForward(st, ev) ==
    [st EXCEPT !.distances[ev.node + 1] =
        [@ EXCEPT !.forward = ev.previous_dist,
                  !.forward_cause = ev.previous_cause]]

UndoBackwardUpdate(st, ev) ==
    [st EXCEPT !.distances[ev.node + 1] =
        [@ EXCEPT !.backward = ev.previous_dist,
                  !.backward_cause = ev.previous_cause]]

UndoEvent(st, ev) ==
    CASE ev.tag = "NodeAdded" -> UndoNodeAdded(st)
      [] ev.tag = "EdgeAdded" -> UndoEdgeAdded(st)
      [] ev.tag = "NewPendingActivation" -> UndoNewPendingActivation(st)
      [] ev.tag = "EdgeActivated" -> UndoEdgeActivated(st, ev.edge)
      [] ev.tag = "ForwardUpdate" -> UndoForwardUpdate(st, ev)
      [] ev.tag = "BackwardUpdate" -> UndoBackwardUpdate(st, ev)

\* returns the network and the level popped (NoEdge for None)
RECURSIVE undo_to_last_backtrack_point(_)
undo_to_last_backtrack_point(st) ==
    IF st.trail = <<>> THEN [st |-> st, result |-> NoEdge]
    ELSE LET ev == st.trail[Len(st.trail)]
             s0 == [st EXCEPT !.trail = Pop(@)]
         IN  IF ev.tag = "Level" THEN [st |-> s0, result |-> ev.lvl]
             ELSE undo_to_last_backtrack_point(UndoEvent(s0, ev))

----------------------------------------------------------------------------
(* The network as a state machine: one action per public operation.  Once   *)
(* propagate_all has returned Inconsistent the only valid operation is the  *)
(* undo (cesta.rs, doc of IncSTN); after an abort there is none.            *)

Nodes(st) == 0 .. (num_nodes(st) - 1)
Edges(st) == 0 .. (num_edges(st) - 1)
UserEdges(st) == {e \in Edges(st) : ~internal(st, e)}

Bounds(st) == [n \in Nodes(st) |-> <<lb(st, n), ub(st, n)>>]

\* what a caller can observe of the network, and the edges marked so far
Observable(st, m) ==
    [num_nodes |-> num_nodes(st), constraints |-> st.constraints,
     bounds |-> Bounds(st), pending |-> st.pending_activations, marked |-> m]

Activations(st) ==
    Cardinality({i \in DOMAIN st.trail : st.trail[i].tag = "NewPendingActivation"})

InQueue(st, e) == \E i \in DOMAIN st.pending_activations : st.pending_activations[i] = e

Usable == status # "Abort" /\ ~(status = "Inconsistent" /\ last_op = "propagate_all")

----------------------------------------------------------------------------
(* DPLL(T): literals, atoms and the Mapping between them *)

NumVars == 3         \* Boolean variables of the CDCL engine
NumAtoms == 4        \* theory atoms

NoLit == 0           \* Option<Lit>::None

Lits == {l \in -NumVars .. NumVars : l # 0}
Atoms == 1 .. NumAtoms
negate(l) == -l

\* <<literal, atom>> pairs offered to Mapping::bind: atoms 1 and 2 can share
\* literal 1, atom 2 can instead go with a negative literal, atom 3 with 3;
\* atom 4 is never given a literal
BindMenu == {<<1, 1>>, <<1, 2>>, <<-2, 2>>, <<3, 3>>}
\* clause sets the CDCL engine starts with
ClauseMenu == {{}, {{-1, 2}}, {{1}, {-1, -3}}, {{1}, {-1}}, {{1, 2}, {1, -2}}}
\* culprit lists of the theory: the atoms of a list cannot hold together
NogoodMenu == {{<<1, 3>>}, {<<1, 2>>}, {<<2>>, <<3, 1>>, <<4, 1>>}}
\* branching orders of the engine's heuristic
OrderMenu == {<<1, 2, 3>>, <<3, -2, 1>>, <<-1, 2, 3>>}

\* a HashMap entry that is absent reads as the empty list / None
EmptyMapping ==
    [atoms |-> [l \in Lits |-> <<>>], literal |-> [a \in Atoms |-> NoLit]]

BindAssert(m, atom) == m.literal[atom] = NoLit

bind_front(m, lit, atom) ==
    [m EXCEPT !.literal[atom] = lit, !.atoms[lit] = <<atom>> \o @]

bind(m, lit, atom) ==
    [m EXCEPT !.literal[atom] = lit, !.atoms[lit] = Append(@, atom)]

\* bind with its assertion: the mapping it leaves behind and whether it panicked
bind_or_panic(m, lit, atom) ==
    IF BindAssert(m, atom) THEN [m |-> bind(m, lit, atom), panic |-> FALSE]
    ELSE [m |-> m, panic |-> TRUE]

atoms_of(m, lit) == m.atoms[lit]

literal_of(m, atom) == m.literal[atom]

----------------------------------------------------------------------------
(* The CDCL engine behind sat: a conventional solver with unit propagation, *)
(* clause learning over the decisions behind a conflict, and backjumping    *)

NewSat(clauses, order, echo) ==
    [clauses |-> clauses, trail |-> <<>>, level |-> 0, reported |-> 0,
     num_learnt |-> 0, order |-> order, echo |-> echo]

TrailLits(s) == {s.trail[i].lit : i \in DOMAIN s.trail}
IsSet(s, l) == l \in TrailLits(s)
Unassigned(s, l) == ~IsSet(s, l) /\ ~IsSet(s, negate(l))
Falsified(s, c) == \A l \in c : IsSet(s, negate(l))
IsUnit(s, c) ==
    /\ \A l \in c : ~IsSet(s, l)
    /\ Cardinality({l \in c : Unassigned(s, l)}) = 1

Assign(s, l, lvl, decision, reason) ==
    [s EXCEPT !.trail = Append(@, [lit |-> l, level |-> lvl,
                                   decision |-> decision, reason |-> reason])]

RECURSIVE UnitPropagate(_)
UnitPropagate(s) ==
    IF \E c \in s.clauses : Falsified(s, c)
    THEN [sat |-> s, conflict |-> TRUE,
          clause |-> CHOOSE c \in s.clauses : Falsified(s, c)]
    ELSE IF \E c \in s.clauses : IsUnit(s, c)
    THEN LET c == CHOOSE c \in s.clauses : IsUnit(s, c)
             l == CHOOSE l \in c : Unassigned(s, l)
         IN  UnitPropagate(Assign(s, l, s.level, FALSE, c))
    ELSE [sat |-> s, conflict |-> FALSE, clause |-> {}]

\* propagate(): Conflict(clause), or Inferred(the literals set since the
\* last report)
sat_propagate(s) ==
    LET r == UnitPropagate(s)
    IN  IF r.conflict
        THEN [sat |-> r.sat, tag |-> "Conflict", clause |-> r.clause,
              inferred |-> <<>>]
        ELSE [sat |-> [r.sat EXCEPT !.reported = Len(r.sat.trail)],
              tag |-> "Inferred", clause |-> {},
              inferred |-> [i \in 1 .. Len(r.sat.trail) - s.reported |->
                               r.sat.trail[s.reported + i].lit]]

TrailEntry(s, l) == s.trail[CHOOSE i \in DOMAIN s.trail : s.trail[i].lit = l]

\* the decisions a set literal follows from
RECURSIVE DecisionsBehind(_, _)
DecisionsBehind(s, l) ==
    LET e == TrailEntry(s, l)
    IN  IF e.decision THEN {l}
        ELSE UNION {DecisionsBehind(s, negate(k)) : k \in e.reason \ {l}}

MaxOf(S) == CHOOSE x \in S : \A y \in S : y <= x

\* handle_conflict(clause): Unsat, or Backtracked{num_backtracks, inferred}
\* after learning the clause that excludes the decisions behind the conflict
handle_conflict(s, clause) ==
    LET D == UNION {DecisionsBehind(s, negate(k)) : k \in clause}
    IN  IF D = {}
        THEN [sat |-> s, tag |-> "Unsat", num_backtracks |-> 0, inferred |-> NoLit]
        ELSE LET top == MaxOf({TrailEntry(s, d).level : d \in D})
                 dtop == CHOOSE d \in D : TrailEntry(s, d).level = top
                 back == MaxOf({TrailEntry(s, d).level : d \in D \ {dtop}} \cup {0})
                 learnt == {negate(d) : d \in D}
                 kept == SelectSeq(s.trail, LAMBDA e : e.level <= back)
                 s1 == [s EXCEPT !.trail = kept, !.level = back,
                                 !.clauses = @ \cup {learnt},
                                 !.reported = IF s.echo THEN Len(kept)
                                              ELSE Len(kept) + 1]
             IN  [sat |-> Assign(s1, negate(dtop), back, FALSE, learnt),
                  tag |-> "Backtracked",
                  num_backtracks |-> s.level - back,
                  inferred |-> negate(dtop)]

\* next_decision(): the first literal of the branching order whose variable
\* is unassigned
next_decision(s) ==
    LET free == {i \in DOMAIN s.order : Unassigned(s, s.order[i])}
    IN  IF free = {} THEN NoLit
        ELSE s.order[CHOOSE i \in free : \A j \in free : i <= j]

sat_decide(s, lit) ==
    LET s1 == Assign([s EXCEPT !.level = @ + 1], lit, s.level + 1, TRUE, {})
    IN  [s1 EXCEPT !.reported = IF s.echo THEN @ ELSE Len(s1.trail)]

add_forgettable_clause(s, clause) ==
    [s EXCEPT !.clauses = @ \cup {SeqToSet(clause)}, !.num_learnt = @ + 1]

\* solve(): the engine's own search
RECURSIVE sat_solve(_)
sat_solve(s) ==
    LET r == UnitPropagate(s)
    IN  IF r.conflict
        THEN LET h == handle_conflict(r.sat, r.clause)
             IN  IF h.tag = "Unsat" THEN [sat |-> r.sat, tag |-> "Unsolvable"]
                 ELSE sat_solve(h.sat)
        ELSE IF next_decision(r.sat) = NoLit
        THEN [sat |-> [r.sat EXCEPT !.reported = Len(r.sat.trail)], tag |-> "Solved"]
        ELSE sat_solve(sat_decide(r.sat, next_decision(r.sat)))

\* Model::set_literals(): the literals in the order the engine set them
set_literals(s) == [i \in DOMAIN s.trail |-> s.trail[i].lit]

----------------------------------------------------------------------------
(* A theory behind the Theory interface: atoms are enabled at the current   *)
(* level, backtrack() undoes one level, deduce() reports a culprit list     *)
(* whose atoms are all enabled, if there is one                             *)

\* calls: the calls the theory received during the driver's last step
NewTheory(nogoods) == [levels |-> <<<<>>>>, nogoods |-> nogoods, calls |-> <<>>]

Call(op, atom_id) == [op |-> op, atom |-> atom_id]

Received(th, op, atom_id) == [th EXCEPT !.calls = Append(@, Call(op, atom_id))]

\* the theory as a driver's step finds it
StepStart(th) == [th EXCEPT !.calls = <<>>]

theory_enable(th, atom_id) ==
    Received([th EXCEPT !.levels[Len(th.levels)] = Append(@, atom_id)],
             "enable", atom_id)

theory_set_backtrack_point(th) ==
    Received([th EXCEPT !.levels = Append(@, <<>>)], "set_backtrack_point", 0)

theory_backtrack(th) ==
    Received(IF Len(th.levels) > 1 THEN [th EXCEPT !.levels = Pop(@)]
             ELSE [th EXCEPT !.levels = <<<<>>>>],
             "backtrack", 0)

Enabled(th) == UNION {SeqToSet(th.levels[i]) : i \in DOMAIN th.levels}

\* the theory after a step's call of deduce()
Deduced(th) == Received(StepStart(th), "deduce", 0)

theory_deduce(th) ==
    LET hit == {ng \in th.nogoods : SeqToSet(ng) \subseteq Enabled(th)}
    IN  IF hit = {} THEN {[tag |-> "Consistent", culprits |-> <<>>]}
        ELSE {[tag |-> "Inconsistent", culprits |-> ng] : ng \in hit}

----------------------------------------------------------------------------
(* The drivers' steps on the theory *)

\* for x in atoms { theory.enable(x) }
RECURSIVE EnableEach(_, _)
EnableEach(th, atoms) ==
    IF atoms = <<>> THEN th
    ELSE EnableEach(theory_enable(th, Head(atoms)), Tail(atoms))

EnableFirstAtomOf(th, m, lit) ==
    IF atoms_of(m, lit) = <<>> THEN th
    ELSE theory_enable(th, Head(atoms_of(m, lit)))

EnableAtomsOf(th, m, lit) == EnableEach(th, atoms_of(m, lit))

\* for l in literals { for atom in atoms_of(l) { theory.enable(atom) } }
RECURSIVE EnableLiterals(_, _, _)
EnableLiterals(th, m, lits) ==
    IF lits = <<>> THEN th
    ELSE EnableLiterals(EnableAtomsOf(th, m, Head(lits)), m, Tail(lits))

BacktrackOnce(th, n) == theory_backtrack(th)

\* for _ in 0..num_backtracks { theory.backtrack() }
RECURSIVE BacktrackTimes(_, _)
BacktrackTimes(th, n) ==
    IF n = 0 THEN th ELSE BacktrackTimes(theory_backtrack(th), n - 1)

\* the Backtracked branch: undo num_backtracks levels, then enable the atoms
\* of the inferred literal
OnBacktrackedEnableFirst(th, m, num_backtracks, inferred) ==
    BacktrackTimes(EnableAtomsOf(th, m, inferred), num_backtracks)

OnBacktracked(th, m, num_backtracks, inferred) ==
    EnableAtomsOf(BacktrackTimes(th, num_backtracks), m, inferred)

OnSolvedKeepLevel(th, m, lits) ==
    EnableLiterals(theory_set_backtrack_point(th), m, lits)

OnSolvedMarkFirst(th, m, lits) ==
    EnableLiterals(theory_backtrack(theory_set_backtrack_point(th)), m, lits)

\* the Solved branch: theory.backtrack(); theory.set_backtrack_point(); then
\* the atoms of the model's literals are enabled
OnSolved(th, m, lits) ==
    EnableLiterals(theory_set_backtrack_point(theory_backtrack(th)), m, lits)

CulpritClauseUnnegated(m, culprits) ==
    SelectSeq([i \in DOMAIN culprits |-> literal_of(m, culprits[i])],
              LAMBDA x : x # NoLit)

\* culprits.iter().filter_map(|c| literal_of(c).map(Lit::negate)).collect()
RECURSIVE CulpritClause(_, _)
CulpritClause(m, culprits) ==
    IF culprits = <<>> THEN <<>>
    ELSE IF literal_of(m, Head(culprits)) = NoLit
         THEN CulpritClause(m, Tail(culprits))
         ELSE <<negate(literal_of(m, Head(culprits)))>>
              \o CulpritClause(m, Tail(culprits))

Driver(pc, conflict, num_backtracks, submitted, answer) ==
    [pc |-> pc, conflict |-> conflict, num_backtracks |-> num_backtracks,
     submitted |-> submitted, answer |-> answer]

At(pc) == Driver(pc, {}, 0, <<>>, "Running")

ReturnAfterClause(loop_head, clause) == Driver("done", {}, 0, clause, "None")

\* the Inconsistent branch ends with add_forgettable_clause(&clause) and falls
\* through to the next iteration of the loop
ContinueAfterClause(loop_head, clause) ==
    Driver(loop_head, {}, 0, clause, "Running")

----------------------------------------------------------------------------
(* Heur: the variable selection heuristic of the CDCL engine.  Activities   *)
(* are f64 in the code; here they are counted in units of 1 / Unit, with    *)
(* Unit chosen so that MaxDecays divisions by var_decay = 19 / 20 are exact. *)
(* Rounding is not modelled, and activities stay far below the 1e100 that   *)
(* triggers var_rescale_activity.                                           *)

NumHeurVars == 3     \* variables of the heuristic
MaxDecays == 2       \* calls of decay_activities
MaxActivity == 3     \* largest activity a bump may reach, in units of 1.0

DecayNum == 19       \* var_decay = 0.95 = DecayNum / DecayDen
DecayDen == 20

NoVar == 0           \* Option<BVar>::None

HeurVars == 1 .. NumHeurVars

RECURSIVE Power(_, _)
Power(b, n) == IF n = 0 THEN 1 ELSE b * Power(b, n - 1)

Unit == Power(DecayNum, MaxDecays)

\* IdxHeap: a binary heap in an array, the entry at position i above those
\* at 2i and 2i + 1, ordered by the comparison the caller passes
by_id == "by_id"
by_max == "by_max"

Before(cmp, acts, a, b) ==
    IF cmp = by_id THEN a < b ELSE acts[a] > acts[b]

Swap(h, i, j) == [h EXCEPT ![i] = h[j], ![j] = h[i]]

Place(h, v) == CHOOSE i \in DOMAIN h : h[i] = v

contains(h, v) == \E i \in DOMAIN h : h[i] = v

RECURSIVE sift_up(_, _, _, _)
sift_up(h, i, cmp, acts) ==
    IF i > 1 /\ Before(cmp, acts, h[i], h[i \div 2])
    THEN sift_up(Swap(h, i, i \div 2), i \div 2, cmp, acts)
    ELSE h

RECURSIVE sift_down(_, _, _, _)
sift_down(h, i, cmp, acts) ==
    IF 2 * i > Len(h) THEN h
    ELSE LET child == IF 2 * i + 1 <= Len(h)
                         /\ Before(cmp, acts, h[2 * i + 1], h[2 * i])
                      THEN 2 * i + 1 ELSE 2 * i
         IN  IF Before(cmp, acts, h[child], h[i])
             THEN sift_down(Swap(h, i, child), child, cmp, acts)
             ELSE h

heap_insert(h, v, cmp, acts) == sift_up(Append(h, v), Len(h) + 1, cmp, acts)

heap_update(h, v, cmp, acts) ==
    LET down == sift_down(h, Place(h, v), cmp, acts)
    IN  sift_up(down, Place(down, v), cmp, acts)

heap_insert_or_update(h, v, cmp, acts) ==
    IF contains(h, v) THEN heap_update(h, v, cmp, acts)
    ELSE heap_insert(h, v, cmp, acts)

\* swap_remove(0), then the new root sinks to its place
heap_pop(h, cmp, acts) ==
    IF Len(h) = 1 THEN <<>>
    ELSE sift_down(<<h[Len(h)]>> \o SubSeq(h, 2, Len(h) - 1), 1, cmp, acts)

heap_peek(h) == IF h = <<>> THEN NoVar ELSE h[1]

RECURSIVE InsertFirst(_, _, _)
InsertFirst(h, v, n) ==
    IF v > n THEN h
    ELSE InsertFirst([h EXCEPT !.heap = heap_insert(@, v, by_id, h.activities)],
                     v + 1, n)

init(num_vars) ==
    InsertFirst([var_inc |-> Unit, activities |-> [v \in 1 .. num_vars |-> Unit],
                 heap |-> <<>>, returned |-> NoVar], 1, num_vars)

pop_next_var(h) ==
    IF h.heap = <<>> THEN [h EXCEPT !.returned = NoVar]
    ELSE [h EXCEPT !.returned = h.heap[1],
                   !.heap = heap_pop(h.heap, by_max, h.activities)]

peek_next_var(h) == [h EXCEPT !.returned = heap_peek(h.heap)]

var_insert(h, var) ==
    [h EXCEPT !.heap = heap_insert_or_update(@, var, by_max, h.activities)]

var_bump_activity(h, var) ==
    LET acts == [h.activities EXCEPT ![var] = @ + h.var_inc]
    IN  [h EXCEPT !.activities = acts,
                  !.heap = IF contains(h.heap, var)
                           THEN heap_update(h.heap, var, by_max, acts)
                           ELSE h.heap]

decay_activities(h) == [h EXCEPT !.var_inc = (@ * DecayDen) \div DecayNum]

\* no solver at work
IdleSMT ==
    /\ mapping = EmptyMapping
    /\ sat = NewSat({}, <<>>, FALSE)
    /\ theory = NewTheory({})
    /\ driver = At("idle")
    /\ heur = init(NumHeurVars)

\* a program that calls the network with what the bounds above offer (its
\* edges come from EdgeMenu, in any order)
AnyClient ==
    [domains |-> Domains, edges |-> <<>>,
     max_nodes |-> MaxNodes, max_edges |-> MaxUserEdges, max_level |-> MaxLevel]

\* a fresh network, not operated on, in the hands of client c
NewNetwork(c) ==
    /\ stn = new
    /\ status = "None"
    /\ last_op = "new"
    /\ undo_result = NoEdge
    /\ snaps = <<>>
    /\ undone = <<>>
    /\ marked = {0, 1}
    /\ client = c

IdleSTN == NewNetwork(AnyClient)

----------------------------------------------------------------------------
(* The operations of a client on the network *)

Init == IdleSTN /\ IdleSMT

AddNode ==
    /\ Usable
    /\ num_nodes(stn) < MaxNodes
    /\ Len(stn.pending_activations) + 2 <= MaxPending
    /\ Activations(stn) + 2 <= MaxActivations
    /\ \E d \in Domains :
          /\ AssertBounds(d[1], d[2])
          /\ stn' = add_node(stn, d[1], d[2])
    /\ marked' = marked \cup {num_edges(stn), num_edges(stn) + 1}
    /\ last_op' = "edit" /\ undone' = <<>> /\ undo_result' = NoEdge
    /\ UNCHANGED <<status, snaps, client, smt_vars>>

AddInactiveEdge ==
    /\ Usable
    /\ Cardinality(UserEdges(stn)) < MaxUserEdges
    /\ \E m \in InactiveMenu :
          /\ m[1] \in Nodes(stn) /\ m[2] \in Nodes(stn)
          /\ stn' = add_inactive_edge(stn, m[1], m[2], m[3])
    /\ last_op' = "edit" /\ undone' = <<>> /\ undo_result' = NoEdge
    /\ UNCHANGED <<status, snaps, marked, client, smt_vars>>

AddEdge ==
    /\ Usable
    /\ Cardinality(UserEdges(stn)) < MaxUserEdges
    /\ Len(stn.pending_activations) < MaxPending
    /\ Activations(stn) < MaxActivations
    /\ \E m \in EdgeMenu :
          /\ m[1] \in Nodes(stn) /\ m[2] \in Nodes(stn)
          /\ stn' = add_edge(stn, m[1], m[2], m[3])
    /\ marked' = marked \cup {num_edges(stn)}
    /\ last_op' = "edit" /\ undone' = <<>> /\ undo_result' = NoEdge
    /\ UNCHANGED <<status, snaps, client, smt_vars>>

MarkActive ==
    /\ Usable
    /\ Len(stn.pending_activations) < MaxPending
    /\ Activations(stn) < MaxActivations
    /\ \E e \in UserEdges(stn) :
          /\ ~active(stn, e) /\ ~InQueue(stn, e)
          /\ stn' = mark_active(stn, e)
          /\ marked' = marked \cup {e}
    /\ last_op' = "edit" /\ undone' = <<>> /\ undo_result' = NoEdge
    /\ UNCHANGED <<status, snaps, client, smt_vars>>

PropagateAll ==
    /\ Usable
    /\ LET r == propagate_all(stn)
       IN  /\ stn' = r.st
           /\ status' = r.status
    /\ last_op' = "propagate_all" /\ undone' = <<>> /\ undo_result' = NoEdge
    /\ UNCHANGED <<snaps, marked, client, smt_vars>>

\* a client that propagates before it sets a backtrack point
SetBacktrackPoint ==
    /\ Usable
    /\ stn.level < MaxLevel
    /\ stn.pending_activations = <<>>
    /\ stn' = set_backtrack_point(stn)
    /\ snaps' = Append(snaps, Observable(stn, marked))
    /\ last_op' = "edit" /\ undone' = <<>> /\ undo_result' = NoEdge
    /\ UNCHANGED <<status, marked, client, smt_vars>>

\* a client that sets a backtrack point at any time
SetBacktrackPointAnytime ==
    /\ Usable
    /\ stn.level < MaxLooseLevel
    /\ stn' = set_backtrack_point(stn)
    /\ snaps' = Append(snaps, Observable(stn, marked))
    /\ last_op' = "edit" /\ undone' = <<>> /\ undo_result' = NoEdge
    /\ UNCHANGED <<status, marked, client, smt_vars>>

Undo ==
    /\ status # "Abort"
    /\ LET r == undo_to_last_backtrack_point(stn)
       IN  /\ stn' = r.st
           /\ undo_result' = r.result
           /\ IF r.result = NoEdge
              THEN /\ undone' = <<>>
                   /\ marked' = {0, 1}
                   /\ snaps' = snaps
              ELSE /\ undone' = <<snaps[Len(snaps)]>>
                   /\ marked' = snaps[Len(snaps)].marked
                   /\ snaps' = Pop(snaps)
    /\ last_op' = "undo"
    /\ UNCHANGED <<status, client, smt_vars>>

Next ==
    \/ AddNode
    \/ AddInactiveEdge
    \/ AddEdge
    \/ MarkActive
    \/ PropagateAll
    \/ SetBacktrackPoint
    \/ Undo

Spec == Init /\ [][Next]_vars

NextLoose ==
    \/ AddNode
    \/ AddInactiveEdge
    \/ AddEdge
    \/ MarkActive
    \/ PropagateAll
    \/ SetBacktrackPointAnytime
    \/ Undo

SpecLoose == Init /\ [][NextLoose]_vars

\* a client that also marks edges that are already active or already pending
MarkActiveAgain ==
    /\ Usable
    /\ Len(stn.pending_activations) < MaxPending
    /\ Activations(stn) < MaxActivations
    /\ \E e \in UserEdges(stn) :
          /\ active(stn, e) \/ InQueue(stn, e)
          /\ stn' = mark_active(stn, e)
          /\ marked' = marked \cup {e}
    /\ last_op' = "edit" /\ undone' = <<>> /\ undo_result' = NoEdge
    /\ UNCHANGED <<status, snaps, client, smt_vars>>

NextRemark ==
    \/ AddNode
    \/ AddEdge
    \/ MarkActiveAgain
    \/ PropagateAll
    \/ SetBacktrackPoint
    \/ Undo

SpecRemark == Init /\ [][NextRemark]_vars

----------------------------------------------------------------------------
(* A program that also makes the calls the preconditions forbid.  A panic   *)
(* ends the program: the network is left at "Abort", the mapping's owner at *)
(* "panic", and nothing is called after either.                             *)

Running == Usable /\ driver.pc = "setup"

InitCalls ==
    /\ IdleSTN
    /\ mapping = EmptyMapping
    /\ sat = NewSat({}, <<>>, FALSE)
    /\ theory = NewTheory({})
    /\ driver = At("setup")
    /\ heur = init(NumHeurVars)

Called(r, op) ==
    /\ stn' = r.st
    /\ status' = IF r.panic THEN "Abort" ELSE status
    /\ last_op' = op
    /\ UNCHANGED <<undo_result, snaps, undone, marked, client, smt_vars>>

CallAddNode ==
    /\ Running
    /\ num_nodes(stn) < MaxNodes
    /\ Len(stn.pending_activations) + 2 <= MaxPending
    /\ \E d \in Domains : Called(add_node_or_panic(stn, d[1], d[2]), "add_node")

CallAddInactiveEdge ==
    /\ Running
    /\ Cardinality(UserEdges(stn)) < MaxUserEdges
    /\ \E m \in InactiveMenu :
          Called(add_inactive_edge_or_panic(stn, m[1], m[2], m[3]), "add_inactive_edge")

CallAddEdge ==
    /\ Running
    /\ Cardinality(UserEdges(stn)) < MaxUserEdges
    /\ Len(stn.pending_activations) < MaxPending
    /\ \E m \in EdgeMenu :
          Called(add_edge_or_panic(stn, m[1], m[2], m[3]), "add_edge")

CallPropagateAll ==
    /\ Running
    /\ stn.pending_activations # <<>>
    /\ LET r == propagate_all(stn)
       IN  /\ stn' = r.st
           /\ status' = r.status
    /\ last_op' = "propagate_all"
    /\ UNCHANGED <<undo_result, snaps, undone, marked, client, smt_vars>>

CallBind ==
    /\ Running
    /\ \E b \in BindMenu :
          LET r == bind_or_panic(mapping, b[1], b[2])
          IN  /\ mapping' = r.m
              /\ driver' = IF r.panic THEN At("panic") ELSE driver
    /\ UNCHANGED <<sat, theory, heur, stn_vars>>

NextCalls ==
    \/ CallAddNode
    \/ CallAddInactiveEdge
    \/ CallAddEdge
    \/ CallPropagateAll
    \/ CallBind

SpecCalls == InitCalls /\ [][NextCalls]_vars

----------------------------------------------------------------------------
(* The heuristic on its own: the calls the CDCL engine makes on it, in any  *)
(* order.                                                                   *)

PopNextVar ==
    /\ heur' = pop_next_var(heur)
    /\ UNCHANGED <<mapping, sat, theory, driver, stn_vars>>

PeekNextVar ==
    /\ heur' = peek_next_var(heur)
    /\ UNCHANGED <<mapping, sat, theory, driver, stn_vars>>

VarInsert ==
    /\ \E v \in HeurVars : heur' = var_insert(heur, v)
    /\ UNCHANGED <<mapping, sat, theory, driver, stn_vars>>

VarBumpActivity ==
    /\ \E v \in HeurVars :
          /\ heur.activities[v] + heur.var_inc <= MaxActivity * Unit
          /\ heur' = var_bump_activity(heur, v)
    /\ UNCHANGED <<mapping, sat, theory, driver, stn_vars>>

DecayActivities ==
    /\ (heur.var_inc * DecayDen) % DecayNum = 0
    /\ heur' = decay_activities(heur)
    /\ UNCHANGED <<mapping, sat, theory, driver, stn_vars>>

NextHeur ==
    \/ PopNextVar
    \/ PeekNextVar
    \/ VarInsert
    \/ VarBumpActivity
    \/ DecayActivities

SpecHeur == Init /\ [][NextHeur]_vars

----------------------------------------------------------------------------
(* Clients with their own domains and edges.  Like test_explanation, they   *)
(* set a backtrack point only on a network without user edges (propagated   *)
(* or not), undo only when a backtrack point is outstanding, add edges only *)
(* before the first backtrack point or above an outstanding one, and add    *)
(* them in the order of their list, leaving out any of them.                *)

MaxTestEdges == 4    \* test_explanation: user edges at a time
MaxTestLevel == 2    \* test_explanation: backtrack points ever set

\* tests::test_explanation: nodes a = 1, b = 2, c = 3; a -> b = 2,
\* b -> a = -2, b -> c = 2, c -> a = -4, b -> a = -3, c -> a = -5
ExplanationClient ==
    [domains |-> {<<0, 10>>},
     edges |-> <<<<1, 2, 2>>, <<2, 1, -2>>, <<2, 3, 2>>, <<3, 1, -4>>,
                 <<2, 1, -3>>, <<3, 1, -5>>>>,
     max_nodes |-> 4, max_edges |-> MaxTestEdges, max_level |-> MaxTestLevel]

Triple(st, e) == <<source(st, e), target(st, e), weight(st, e)>>

Outstanding(st) == \E i \in DOMAIN st.trail : st.trail[i].tag = "Level"

ClientAddNode ==
    /\ Usable
    /\ num_nodes(stn) < client.max_nodes
    /\ \E d \in client.domains :
          /\ AssertBounds(d[1], d[2])
          /\ stn' = add_node(stn, d[1], d[2])
    /\ last_op' = "edit"
    /\ UNCHANGED <<status, undo_result, snaps, undone, marked, client, smt_vars>>

ClientAddEdge ==
    /\ Usable
    /\ stn.level = 0 \/ Outstanding(stn)
    /\ Cardinality(UserEdges(stn)) < client.max_edges
    /\ \E k \in DOMAIN client.edges :
          LET m == client.edges[k]
          IN  /\ m[1] \in Nodes(stn) /\ m[2] \in Nodes(stn)
              /\ \A e \in UserEdges(stn) :
                    \E i \in 1 .. (k - 1) : client.edges[i] = Triple(stn, e)
              /\ stn' = add_edge(stn, m[1], m[2], m[3])
    /\ last_op' = "edit"
    /\ UNCHANGED <<status, undo_result, snaps, undone, marked, client, smt_vars>>

ClientPropagateAll ==
    /\ Usable
    /\ stn.pending_activations # <<>>
    /\ LET r == propagate_all(stn)
       IN  /\ stn' = r.st
           /\ status' = r.status
    /\ last_op' = "propagate_all"
    /\ UNCHANGED <<undo_result, snaps, undone, marked, client, smt_vars>>

ClientSetBacktrackPoint ==
    /\ Usable
    /\ stn.level < client.max_level
    /\ UserEdges(stn) = {}
    /\ stn' = set_backtrack_point(stn)
    /\ last_op' = "edit"
    /\ UNCHANGED <<status, undo_result, snaps, undone, marked, client, smt_vars>>

ClientUndo ==
    /\ status # "Abort"
    /\ Outstanding(stn)
    /\ LET r == undo_to_last_backtrack_point(stn)
       IN  /\ stn' = r.st
           /\ undo_result' = r.result
    /\ last_op' = "undo"
    /\ UNCHANGED <<status, snaps, undone, marked, client, smt_vars>>

\* test_explanation: the three nodes are added first, nothing is propagated
InitExplanation ==
    /\ stn = add_node(add_node(add_node(new, 0, 10), 0, 10), 0, 10)
    /\ status = "None"
    /\ last_op = "edit"
    /\ undo_result = NoEdge
    /\ snaps = <<>>
    /\ undone = <<>>
    /\ marked = {0, 1}
    /\ client = ExplanationClient
    /\ IdleSMT

NextExplanation ==
    \/ ClientAddEdge
    \/ ClientPropagateAll
    \/ ClientSetBacktrackPoint
    \/ ClientUndo

SpecExplanation == InitExplanation /\ [][NextExplanation]_vars

MaxChainEdges == 3   \* chain client: user edges at a time
MaxChainLevel == 1   \* chain client: backtrack points ever set

\* a client with nodes 1 and 3 in [0, 10] and node 2 in [0, 10] or [5, 10],
\* whose edges 1 -> 2 and 2 -> 3 tighten bounds along a chain of causes and
\* whose edges 3 -> 1 and, last, 1 -> 2 close the chain into a cycle
ChainClient ==
    [domains |-> {<<0, 10>>, <<5, 10>>},
     edges |-> <<<<1, 2, -1>>, <<2, 3, 0>>, <<2, 3, 1>>, <<3, 1, -1>>,
                 <<3, 1, -8>>, <<3, 1, -9>>, <<1, 2, -4>>>>,
     max_nodes |-> 4, max_edges |-> MaxChainEdges, max_level |-> MaxChainLevel]

InitChain ==
    /\ \E d \in ChainClient.domains :
          stn = add_node(add_node(add_node(new, 0, 10), d[1], d[2]), 0, 10)
    /\ status = "None"
    /\ last_op = "edit"
    /\ undo_result = NoEdge
    /\ snaps = <<>>
    /\ undone = <<>>
    /\ marked = {0, 1}
    /\ client = ChainClient
    /\ IdleSMT

NextChain ==
    \/ ClientAddEdge
    \/ ClientPropagateAll
    \/ ClientSetBacktrackPoint
    \/ ClientUndo

SpecChain == InitChain /\ [][NextChain]_vars

MaxPinnedNodes == 3  \* nodes of the network, origin included
MaxPinnedEdges == 2  \* user edges at a time
MaxPinnedLevel == 1  \* backtrack points ever set

\* a client that adds nodes pinned to one value (lb = ub, below, at and
\* above 0) and nodes with a wider domain, edges from the origin to the
\* first node with a negative weight, and self loops of negative, zero and
\* positive weight
PinnedClient ==
    [domains |-> {<<0, 0>>, <<2, 2>>, <<-2, -2>>, <<-1, 3>>},
     edges |-> <<<<0, 1, -1>>, <<0, 1, -3>>, <<1, 1, 0>>, <<1, 1, 2>>,
                 <<1, 1, -1>>>>,
     max_nodes |-> MaxPinnedNodes, max_edges |-> MaxPinnedEdges,
     max_level |-> MaxPinnedLevel]

InitPinned == NewNetwork(PinnedClient) /\ IdleSMT

NextPinned ==
    \/ ClientAddNode
    \/ ClientAddEdge
    \/ ClientPropagateAll
    \/ ClientSetBacktrackPoint
    \/ ClientUndo

SpecPinned == InitPinned /\ [][NextPinned]_vars

----------------------------------------------------------------------------
(* DPLL(T): the solver is built, then solve(lazy) runs one of the loops *)

InitSMT ==
    /\ IdleSTN
    /\ mapping = EmptyMapping
    /\ \E c \in ClauseMenu, o \in OrderMenu, echo \in BOOLEAN :
          sat = NewSat(c, o, echo)
    /\ \E g \in NogoodMenu : theory = NewTheory(g)
    /\ driver = At("setup")
    /\ heur = init(NumHeurVars)

Bind ==
    /\ driver.pc = "setup"
    /\ \E b \in BindMenu :
          /\ BindAssert(mapping, b[2])
          /\ mapping' = bind(mapping, b[1], b[2])
    /\ UNCHANGED <<sat, theory, driver, heur, stn_vars>>

\* SMTSolver::solve; lazy_dpll_t opens with theory.set_backtrack_point()
Solve ==
    /\ driver.pc = "setup"
    /\ \E lazy \in BOOLEAN :
          IF lazy
          THEN /\ theory' = theory_set_backtrack_point(StepStart(theory))
               /\ driver' = At("lazy_solve")
          ELSE /\ theory' = StepStart(theory)
               /\ driver' = At("propagate")
    /\ UNCHANGED <<mapping, sat, heur, stn_vars>>

\* solve_eager: self.sat.propagate() and, on Inferred, the enabling of the
\* atoms of the inferred literals
EagerPropagate ==
    /\ driver.pc = "propagate"
    /\ LET r == sat_propagate(sat)
       IN  /\ sat' = r.sat
           /\ IF r.tag = "Conflict"
              THEN /\ theory' = StepStart(theory)
                   /\ driver' = Driver("conflict", r.clause, 0, <<>>, "Running")
              ELSE /\ theory' = EnableLiterals(StepStart(theory), mapping, r.inferred)
                   /\ driver' = At("deduce")
    /\ UNCHANGED <<mapping, heur, stn_vars>>

\* solve_eager: the Conflict branch
EagerHandleConflict ==
    /\ driver.pc = "conflict"
    /\ LET h == handle_conflict(sat, driver.conflict)
       IN  IF h.tag = "Backtracked"
           THEN /\ sat' = h.sat
                /\ theory' = OnBacktracked(StepStart(theory), mapping,
                                           h.num_backtracks, h.inferred)
                /\ driver' = Driver("propagate", {}, h.num_backtracks, <<>>,
                                    "Running")
           ELSE /\ driver' = Driver("done", {}, 0, <<>>, "None")
                /\ theory' = StepStart(theory)
                /\ sat' = sat
    /\ UNCHANGED <<mapping, heur, stn_vars>>

\* solve_eager: self.theory.deduce() and its two branches
EagerDeduce ==
    /\ driver.pc = "deduce"
    /\ \E res \in theory_deduce(theory) :
          IF res.tag = "Consistent"
          THEN IF next_decision(sat) # NoLit
               THEN /\ sat' = sat_decide(sat, next_decision(sat))
                    /\ theory' = EnableAtomsOf(
                                     theory_set_backtrack_point(Deduced(theory)),
                                     mapping, next_decision(sat))
                    /\ driver' = At("propagate")
               ELSE /\ driver' = Driver("done", {}, 0, <<>>, "Model")
                    /\ theory' = Deduced(theory)
                    /\ sat' = sat
          ELSE /\ sat' = add_forgettable_clause(sat,
                             CulpritClause(mapping, res.culprits))
               /\ driver' = ContinueAfterClause("propagate",
                                   CulpritClause(mapping, res.culprits))
               /\ theory' = Deduced(theory)
    /\ UNCHANGED <<mapping, heur, stn_vars>>

\* lazy_dpll_t: sat.solve() and, on Solved, the replay of the model in the theory
LazySolve ==
    /\ driver.pc = "lazy_solve"
    /\ LET r == sat_solve(sat)
       IN  /\ sat' = r.sat
           /\ IF r.tag = "Unsolvable"
              THEN /\ theory' = StepStart(theory)
                   /\ driver' = Driver("done", {}, 0, <<>>, "None")
              ELSE /\ theory' = OnSolved(StepStart(theory), mapping,
                                        set_literals(r.sat))
                   /\ driver' = At("lazy_deduce")
    /\ UNCHANGED <<mapping, heur, stn_vars>>

\* lazy_dpll_t: theory.deduce() and its two branches
LazyDeduce ==
    /\ driver.pc = "lazy_deduce"
    /\ \E res \in theory_deduce(theory) :
          IF res.tag = "Consistent"
          THEN /\ driver' = Driver("done", {}, 0, <<>>, "Model")
               /\ sat' = sat
          ELSE /\ sat' = add_forgettable_clause(sat,
                             CulpritClause(mapping, res.culprits))
               /\ driver' = ContinueAfterClause("lazy_solve",
                                   CulpritClause(mapping, res.culprits))
    /\ theory' = Deduced(theory)
    /\ UNCHANGED <<mapping, heur, stn_vars>>

NextSMT ==
    \/ Bind
    \/ Solve
    \/ EagerPropagate
    \/ EagerHandleConflict
    \/ EagerDeduce
    \/ LazySolve
    \/ LazyDeduce

SpecSMT == InitSMT /\ [][NextSMT]_vars

\* the atom that no bind call names
UnboundAtom == 4

\* the same solver on a theory in which the client has already enabled the
\* atom that has no literal
InitLemma ==
    /\ IdleSTN
    /\ mapping = EmptyMapping
    /\ \E c \in ClauseMenu, o \in OrderMenu, echo \in BOOLEAN :
          sat = NewSat(c, o, echo)
    /\ \E g \in NogoodMenu :
          theory = StepStart(theory_enable(NewTheory(g), UnboundAtom))
    /\ driver = At("setup")
    /\ heur = init(NumHeurVars)

SpecLemma == InitLemma /\ [][NextSMT]_vars


----------------------------------------------------------------------------
(* What the network means: the assignments of times to the nodes.           *)

DomainUb(st, n) ==
    IF n = origin THEN 0
    ELSE weight(st, CHOOSE e \in Edges(st) :
                       internal(st, e) /\ source(st, e) = origin /\ target(st, e) = n)

DomainLb(st, n) ==
    IF n = origin THEN 0
    ELSE -weight(st, CHOOSE e \in Edges(st) :
                        internal(st, e) /\ source(st, e) = n /\ target(st, e) = origin)

Times == UNION {d[1] .. d[2] : d \in Domains} \cup {0}

Assignments(st) ==
    {t \in [Nodes(st) -> Times] :
        \A n \in Nodes(st) : DomainLb(st, n) <= t[n] /\ t[n] <= DomainUb(st, n)}

Satisfies(st, t, E) ==
    \A e \in E : t[target(st, e)] - t[source(st, e)] <= weight(st, e)

Solutions(st, E) == {t \in Assignments(st) : Satisfies(st, t, E)}

ActiveEdges(st) == {e \in Edges(st) : active(st, e)}

Returned(s) == last_op = "propagate_all" /\ status = s

NeverAborts == status # "Abort"

----------------------------------------------------------------------------
C2_UndoRoundTrip ==
    (last_op = "undo" /\ undone # <<>>) =>
        /\ num_nodes(stn) = undone[1].num_nodes
        /\ stn.constraints = undone[1].constraints
        /\ Bounds(stn) = undone[1].bounds

\* the undo of a nested level that ended in Inconsistent, on a network with
\* an active user edge
C2_Witness ==
    /\ last_op = "undo" /\ undone # <<>>
    /\ status = "Inconsistent"
    /\ Len(snaps) > 0
    /\ \E e \in UserEdges(stn) : active(stn, e)

(* C3: after an undo that matched a backtrack point, the activation queue   *)
(* holds the edges it held when the backtrack point was set, in that order. *)
C3_PendingRestored ==
    (last_op = "undo" /\ undone # <<>>) =>
        stn.pending_activations = undone[1].pending

(* C4: the explanation returned with Inconsistent can be ordered into a     *)
(* closed walk, consecutive edges being joined where needed by the bound    *)
(* edges n -> origin (weight -lb_n) and origin -> n (weight ub_n), whose     *)
(* weights sum to less than zero; every entry of the buffer is on the walk. *)
Link(st, x, y) ==
    IF x = y THEN 0
    ELSE (IF x = origin THEN 0 ELSE -DomainLb(st, x))
         + (IF y = origin THEN 0 ELSE DomainUb(st, y))

Orders(n) == {f \in [1 .. n -> 1 .. n] : \A i, j \in 1 .. n : f[i] = f[j] => i = j}

RECURSIVE WalkWeight(_, _, _, _)
WalkWeight(st, expl, f, i) ==
    IF i > Len(expl) THEN 0
    ELSE weight(st, expl[f[i]])
         + Link(st, target(st, expl[f[i]]),
                    source(st, expl[f[IF i = Len(expl) THEN 1 ELSE i + 1]]))
         + WalkWeight(st, expl, f, i + 1)

NegativeClosedWalk(st, expl) ==
    /\ expl # <<>>
    /\ \A i \in DOMAIN expl : expl[i] \in Edges(st)
    /\ \E f \in Orders(Len(expl)) : WalkWeight(st, expl, f, 1) < 0

C4_ExplanationIsNegativeCycle ==
    Returned("Inconsistent") => NegativeClosedWalk(stn, stn.explanation)

\* a cycle closed through the origin by a bound edge, found after an earlier
\* explanation had been left in the buffer
C4_Witness ==
    /\ Returned("Inconsistent")
    /\ Len(stn.explanation) = 2
    /\ target(stn, stn.explanation[1]) # source(stn, stn.explanation[2])
    /\ stn.level > Len(snaps)

(* C5 as stated: every edge of a returned explanation has its active flag   *)
(* set and is in out[source] and in[target].                                *)
IsActive(st, e) ==
    /\ active(st, e)
    /\ e \in SeqToSet(st.active_forward_edges[source(st, e) + 1])
    /\ e \in SeqToSet(st.active_backward_edges[target(st, e) + 1])

C5_ExplainedEdgesActive ==
    Returned("Inconsistent") =>
        \A i \in DOMAIN stn.explanation : IsActive(stn, stn.explanation[i])

(* C5 amended: every edge of a returned explanation that is not a self loop *)
(* is active (flag set, in out[source] and in[target]); a self loop is      *)
(* reported alone and is not active.                                        *)
C5_ExplainedEdgesActiveUnlessSelfLoop ==
    Returned("Inconsistent") =>
        \A i \in DOMAIN stn.explanation :
            LET e == stn.explanation[i] IN
            IF source(stn, e) = target(stn, e)
            THEN Len(stn.explanation) = 1 /\ ~active(stn, e)
            ELSE IsActive(stn, e)

\* an explanation of two edges, the older one activated by an earlier call
C5_Witness ==
    /\ Returned("Inconsistent")
    /\ Len(stn.explanation) = 2
    /\ stn.explanation[2] < stn.explanation[1]
    /\ source(stn, stn.explanation[1]) # origin

(* C6: no edge of a returned explanation is internal, the first one (on     *)
(* which the violation was detected) included.                              *)
C6_ExplanationNotInternal ==
    Returned("Inconsistent") =>
        \A i \in DOMAIN stn.explanation : ~internal(stn, stn.explanation[i])

\* the walk went over a bound edge: the cycle found leaves b for the origin
C6_Witness ==
    /\ Returned("Inconsistent")
    /\ \E i \in DOMAIN stn.explanation :
          /\ target(stn, stn.explanation[i]) # origin
          /\ \A j \in DOMAIN stn.explanation :
                source(stn, stn.explanation[j]) # target(stn, stn.explanation[i])

(* C7: when propagate_all returns Consistent, ub(n) is the largest and      *)
(* lb(n) the smallest time of n over the assignments that satisfy the       *)
(* domains and the active edges, and no active edge can be relaxed further. *)
C7_TightBounds ==
    Returned("Consistent") =>
        LET S == Solutions(stn, ActiveEdges(stn)) IN
        /\ S # {}
        /\ \A n \in Nodes(stn) :
              /\ \E t \in S : t[n] = ub(stn, n)
              /\ \E t \in S : t[n] = lb(stn, n)
              /\ \A t \in S : lb(stn, n) <= t[n] /\ t[n] <= ub(stn, n)
        /\ \A e \in ActiveEdges(stn) :
              /\ ub(stn, target(stn, e)) <= ub(stn, source(stn, e)) + weight(stn, e)
              /\ lb(stn, source(stn, e)) >= lb(stn, target(stn, e)) - weight(stn, e)

\* a user edge raised the lower bound of its source and lowered the upper
\* bound of its target, in a network of three nodes
C7_Witness ==
    /\ Returned("Consistent")
    /\ num_nodes(stn) = 3
    /\ \E e \in UserEdges(stn) :
          /\ active(stn, e)
          /\ lb(stn, source(stn, e)) > DomainLb(stn, source(stn, e))
          /\ ub(stn, target(stn, e)) < DomainUb(stn, target(stn, e))

(* C8: while the last propagate_all returned Consistent, every node has     *)
(* forward + backward >= 0, that is lb <= ub.                               *)
C8_BoundsOrdered ==
    status = "Consistent" =>
        \A n \in Nodes(stn) : fdist(stn, n) + bdist(stn, n) >= 0

\* a node pinned by propagation (lb = ub) below its domain's upper bound
C8_Witness ==
    /\ status = "Consistent"
    /\ \E n \in Nodes(stn) :
          /\ n # origin
          /\ fdist(stn, n) + bdist(stn, n) = 0
          /\ ub(stn, n) < DomainUb(stn, n)

(* C9: each time a driver (eager or lazy) calls theory.deduce(), the atoms  *)
(* enabled in the theory and not undone by theory.backtrack() are exactly   *)
(* the atoms whose literal literal_of(a) is set in the CDCL engine.         *)
AtomsOfSetLiterals ==
    {a \in Atoms : literal_of(mapping, a) # NoLit
                   /\ IsSet(sat, literal_of(mapping, a))}

C9_TheoryAgreesWithSat ==
    driver.pc \in {"deduce", "lazy_deduce"} => Enabled(theory) = AtomsOfSetLiterals

\* a deduce() of the eager loop, below a decision, after a theory lemma was
\* learnt, with two atoms enabled for one literal
C9_Witness ==
    /\ driver.pc = "deduce"
    /\ sat.level > 0
    /\ sat.num_learnt > 0
    /\ \E a, b \in Enabled(theory) :
          a # b /\ literal_of(mapping, a) = literal_of(mapping, b)

(* C10: at every call to sat.propagate() in the eager loop, the number of   *)
(* theory backtrack points set and not undone equals the number of CDCL     *)
(* decisions not undone.                                                    *)
C10_LevelsInLockStep ==
    driver.pc = "propagate" => Len(theory.levels) - 1 = sat.level

\* the propagate() that follows a conflict which undid two decisions at
\* once and left one standing
C10_Witness ==
    /\ driver.pc = "propagate"
    /\ driver.num_backtracks = 2
    /\ sat.level = 1

(* C11: when handle_conflict returns Backtracked{num_backtracks, inferred}, *)
(* the calls the eager driver makes on the theory in that step are exactly  *)
(* num_backtracks times backtrack() followed by enable(a) for each a of     *)
(* atoms_of(inferred) in list order; with a single decision level that is   *)
(* one backtrack() call.                                                    *)
BacktrackedCalls(num_backtracks, atoms) ==
    [i \in 1 .. num_backtracks |-> Call("backtrack", 0)]
    \o [i \in 1 .. Len(atoms) |-> Call("enable", atoms[i])]

C11_BacktrackThenEnable ==
    [][(driver.pc = "conflict"
        /\ handle_conflict(sat, driver.conflict).tag = "Backtracked")
       => LET h == handle_conflict(sat, driver.conflict)
          IN  /\ theory'.calls =
                    BacktrackedCalls(h.num_backtracks, atoms_of(mapping, h.inferred))
              /\ sat.level = 1 =>
                    Cardinality({i \in DOMAIN theory'.calls :
                                    theory'.calls[i].op = "backtrack"}) = 1]_vars

\* after a Backtracked conflict whose inferred literal has two atoms: one
\* backtrack() and two enable() calls were made
C11_Witness ==
    /\ driver.pc = "propagate"
    /\ driver.num_backtracks = 1
    /\ Len(theory.calls) = 3
    /\ theory.calls[3].op = "enable"

(* C12: each time theory.deduce() returns Inconsistent(culprits), the       *)
(* driver (eager or lazy) calls add_forgettable_clause exactly once, with   *)
(* the negations of literal_of(a) for the culprits a that have a literal    *)
(* and no other literal.                                                    *)
NegatedLiterals(culprits) ==
    {negate(literal_of(mapping, a)) :
        a \in {b \in SeqToSet(culprits) : literal_of(mapping, b) # NoLit}}

C12_ClauseFromCulprits ==
    [][(driver.pc \in {"deduce", "lazy_deduce"}
        /\ \E res \in theory_deduce(theory) : res.tag = "Inconsistent")
       => /\ sat'.num_learnt = sat.num_learnt + 1
          /\ \E res \in theory_deduce(theory) :
                /\ SeqToSet(driver'.submitted) = NegatedLiterals(res.culprits)
                /\ sat'.clauses = sat.clauses \cup {NegatedLiterals(res.culprits)}]_vars

\* a clause was submitted for two culprits of which the first has no literal
C12_Witness ==
    /\ driver.pc \in {"propagate", "lazy_solve"}
    /\ sat.num_learnt > 0
    /\ Len(driver.submitted) = 1
    /\ \A res \in theory_deduce(theory) :
          /\ res.tag = "Inconsistent"
          /\ Len(res.culprits) = 2
          /\ literal_of(mapping, res.culprits[1]) = NoLit

(* C13: the clause passed to add_forgettable_clause contains no literal     *)
(* twice, also when two culprit atoms are bound to the same literal.        *)
C13_NoLiteralTwice ==
    \A i, j \in DOMAIN driver.submitted :
        i # j => driver.submitted[i] # driver.submitted[j]

(* C14: solve returns None only when handle_conflict reports Unsat (eager)  *)
(* or sat.solve() reports Unsolvable (lazy); it returns a model only in the *)
(* step of a theory.deduce() that returned Consistent, in eager mode with   *)
(* next_decision() returning none; a deduce() that returns Inconsistent     *)
(* never ends the loop: the clause is added and the loop runs again.        *)
ReturnsNow(answer) == driver.answer = "Running" /\ driver'.answer = answer

C14_DriverExits ==
    [][/\ ReturnsNow("None") =>
             \/ /\ driver.pc = "conflict"
                /\ handle_conflict(sat, driver.conflict).tag = "Unsat"
             \/ /\ driver.pc = "lazy_solve"
                /\ sat_solve(sat).tag = "Unsolvable"
       /\ ReturnsNow("Model") =>
             /\ theory'.calls = <<Call("deduce", 0)>>
             /\ \A res \in theory_deduce(theory) : res.tag = "Consistent"
             /\ \/ driver.pc = "deduce" /\ next_decision(sat) = NoLit
                \/ driver.pc = "lazy_deduce"
       /\ (/\ driver.pc \in {"deduce", "lazy_deduce"}
           /\ \E res \in theory_deduce(theory) : res.tag = "Inconsistent")
          => /\ driver'.answer = "Running"
             /\ sat'.num_learnt = sat.num_learnt + 1
             /\ driver'.pc = IF driver.pc = "deduce" THEN "propagate"
                             ELSE "lazy_solve"]_vars

\* the loop went on after two theory conflicts, each of which added a
\* clause, and then returned None
C14_Witness ==
    /\ driver.pc = "done"
    /\ sat.num_learnt = 2
    /\ driver.answer = "None"

(* C15: in the lazy driver, each time sat.solve() returns Solved, the       *)
(* theory receives backtrack(), then set_backtrack_point(), then enable(a)  *)
(* for the atoms of the model's literals, the literals in the order of      *)
(* set_literals() and the atoms of one literal in the order they were       *)
(* bound; the single deduce() comes after all of them.                      *)
RECURSIVE AtomsInOrder(_)
AtomsInOrder(lits) ==
    IF lits = <<>> THEN <<>>
    ELSE atoms_of(mapping, Head(lits)) \o AtomsInOrder(Tail(lits))

SolvedCalls(lits) ==
    <<Call("backtrack", 0), Call("set_backtrack_point", 0)>>
    \o [i \in 1 .. Len(AtomsInOrder(lits)) |->
           Call("enable", AtomsInOrder(lits)[i])]

C15_LazyReplayOrder ==
    [][/\ (driver.pc = "lazy_solve" /\ sat_solve(sat).tag = "Solved")
          => /\ theory'.calls = SolvedCalls(set_literals(sat_solve(sat).sat))
             /\ driver'.pc = "lazy_deduce"
       /\ driver.pc = "lazy_deduce"
          => theory'.calls = <<Call("deduce", 0)>>]_vars

\* the model set literal 3 before literal 1, and atom 2 was bound to literal
\* 1 before atom 1: the theory was told backtrack, set_backtrack_point,
\* enable(3), enable(2), enable(1), and deduce() has not been called yet
C15_Witness ==
    /\ driver.pc = "lazy_deduce"
    /\ Len(theory.calls) = 5
    /\ theory.calls[3].atom = 3
    /\ theory.calls[4].atom = 2
    /\ theory.calls[5].atom = 1

(* C16: when the activations made above a backtrack point gave Consistent   *)
(* with bounds B (also when a further level has since ended Inconsistent    *)
(* and was undone), undoing them and then activating edges with the same    *)
(* source, target and weight again (the same edge if it outlives the undo,  *)
(* a newly added one otherwise) gives Consistent with the bounds B again.   *)
RECURSIVE Ascending(_)
Ascending(S) ==
    IF S = {} THEN <<>>
    ELSE LET least == CHOOSE x \in S : \A y \in S : x <= y
         IN  <<least>> \o Ascending(S \ {least})

\* the edges of st that the undo leading to st_undone has deactivated
Deactivated(st, st_undone) ==
    {e \in ActiveEdges(st) : ~(e \in Edges(st_undone) /\ active(st_undone, e))}

\* the client activates again, on cur, the edges es of st
RECURSIVE Reactivate(_, _, _, _)
Reactivate(cur, st, st_undone, es) ==
    IF es = <<>> THEN cur
    ELSE LET e == Head(es)
             nxt == IF e \in Edges(st_undone)
                    THEN mark_active(cur, e)
                    ELSE add_edge(cur, source(st, e), target(st, e), weight(st, e))
         IN  Reactivate(nxt, st, st_undone, Tail(es))

Replayed(st) ==
    LET st_undone == undo_to_last_backtrack_point(st).st
    IN  propagate_all(Reactivate(st_undone, st, st_undone,
                                 Ascending(Deactivated(st, st_undone))))

\* nothing is pending and the last propagation above an outstanding
\* backtrack point did not fail: the bounds are those of a Consistent result
SettledAboveBacktrackPoint ==
    /\ Usable
    /\ stn.pending_activations = <<>>
    /\ Outstanding(stn)
    /\ num_nodes(undo_to_last_backtrack_point(stn).st) = num_nodes(stn)

C16_ReplayAfterUndo ==
    SettledAboveBacktrackPoint
        => /\ Replayed(stn).status = "Consistent"
           /\ Bounds(Replayed(stn).st) = Bounds(stn)

\* a deeper level ended Inconsistent and was undone; the level now on top
\* had activated an edge that tightened a bound, and that edge does not
\* outlive its undo
C16_Witness ==
    /\ SettledAboveBacktrackPoint
    /\ last_op = "undo"
    /\ status = "Inconsistent"
    /\ Bounds(undo_to_last_backtrack_point(stn).st) # Bounds(stn)
    /\ \E e \in Deactivated(stn, undo_to_last_backtrack_point(stn).st) :
          e \notin Edges(undo_to_last_backtrack_point(stn).st)

(* C17: with nodes a, b, c in [0, 10] and no other active user edge, on a   *)
(* fresh network and after earlier cases were undone: (i) a->b = 2 then     *)
(* b->a = -3 gives Inconsistent with explanation {ab, ba}; (ii) a->b = 2    *)
(* and b->a = -2 are Consistent, and b->a = -3 on top of them gives the     *)
(* explanation {ab, the -3 edge}; (iii) a->b = 2, b->c = 2 and c->a = -4    *)
(* are Consistent, and c->a = -5 on top of them gives the explanation       *)
(* {ab, bc, the -5 edge}.                                                   *)
ab == <<1, 2, 2>>
bc == <<2, 3, 2>>
ba(w) == <<2, 1, w>>
ca(w) == <<3, 1, w>>

ActiveUserEdges(st) == {Triple(st, e) : e \in {x \in UserEdges(st) : active(st, x)}}

PendingUserEdges(st) ==
    LET q == SelectSeq(st.pending_activations, LAMBDA e : ~internal(st, e))
    IN  [i \in DOMAIN q |-> Triple(st, q[i])]

\* propagate_all is called with the user edges act active and pend pending
Propagating(act, pend) ==
    /\ last_op' = "propagate_all"
    /\ ActiveUserEdges(stn) = act
    /\ PendingUserEdges(stn) = pend

Explained(edges) ==
    /\ status' = "Inconsistent"
    /\ {Triple(stn', e) : e \in SeqToSet(stn'.explanation)} = edges

C17_ExplanationScenarios ==
    [][/\ Propagating({}, <<ab, ba(-3)>>) => Explained({ab, ba(-3)})
       /\ Propagating({ab}, <<ba(-3)>>) => Explained({ab, ba(-3)})
       /\ Propagating({}, <<ab, ba(-2)>>) => status' = "Consistent"
       /\ Propagating({ab, ba(-2)}, <<ba(-3)>>) => Explained({ab, ba(-3)})
       /\ Propagating({}, <<ab, bc, ca(-4)>>) => status' = "Consistent"
       /\ Propagating({ab, bc, ca(-4)}, <<ca(-5)>>)
             => Explained({ab, bc, ca(-5)})]_vars

\* the third case, run after two earlier cases were undone: the -5 edge was
\* propagated on top of the three consistent ones
C17_Witness ==
    /\ Returned("Inconsistent")
    /\ stn.level = 2
    /\ ActiveUserEdges(stn) = {ab, bc, ca(-4), ca(-5)}
    /\ Len(stn.explanation) = 3

(* C18: when propagate_all comes to a marked edge e with source = target,   *)
(* it returns Inconsistent with the explanation [e] if the weight of e is   *)
(* negative; if the weight is 0 or more, the result and every node's bounds *)
(* are what they would be had e not been marked.                            *)
QueuedSelfLoops(st) ==
    {e \in SeqToSet(st.pending_activations) : source(st, e) = target(st, e)}

Unmarked(st, e) ==
    [st EXCEPT !.pending_activations = SelectSeq(@, LAMBDA x : x # e)]

\* the queue cut before the first occurrence of e
UpTo(st, e) ==
    LET first == CHOOSE i \in DOMAIN st.pending_activations :
                    /\ st.pending_activations[i] = e
                    /\ \A j \in 1 .. (i - 1) : st.pending_activations[j] # e
    IN  [st EXCEPT !.pending_activations = SubSeq(@, 1, first - 1)]

C18_SelfLoops ==
    [][last_op' = "propagate_all" =>
         \A e \in QueuedSelfLoops(stn) :
            /\ (weight(stn, e) < 0 /\ propagate_all(UpTo(stn, e)).status = "Consistent")
                  => status' = "Inconsistent" /\ stn'.explanation = <<e>>
            /\ weight(stn, e) >= 0
                  => /\ status' = propagate_all(Unmarked(stn, e)).status
                     /\ Bounds(stn') = Bounds(propagate_all(Unmarked(stn, e)).st)]_vars

\* a self loop of weight 0 was propagated without effect, and the self loop
\* of weight -1 marked after it was then reported alone
C18_Witness ==
    /\ Returned("Inconsistent")
    /\ \E e, z \in UserEdges(stn) :
          /\ stn.explanation = <<e>>
          /\ source(stn, e) = target(stn, e) /\ weight(stn, e) < 0
          /\ source(stn, z) = target(stn, z) /\ weight(stn, z) = 0
          /\ z < e /\ ~InQueue(stn, z)

(* C19: for every node added with lb = ub, of any value, marking an edge    *)
(* from the origin to the node with a negative weight makes the next        *)
(* propagate_all return Inconsistent.                                       *)
Pinned(st, n) == n # origin /\ DomainLb(st, n) = DomainUb(st, n)

\* the marked, not yet active edges from the origin to a pinned node
QueuedOnPinned(st) ==
    {e \in SeqToSet(st.pending_activations) :
        /\ ~internal(st, e) /\ ~active(st, e)
        /\ source(st, e) = origin
        /\ Pinned(st, target(st, e))}

C19_PinnedRejectsNegative ==
    [][last_op' = "propagate_all" =>
         \A e \in QueuedOnPinned(stn) :
            weight(stn, e) < 0 => status' = "Inconsistent"]_vars

(* C19 as amended: the same for a negative weight below the value the node  *)
(* is pinned to, which is every negative weight when that value is 0 or     *)
(* more.                                                                    *)
C19_PinnedRejectsBelowValue ==
    [][last_op' = "propagate_all" =>
         \A e \in QueuedOnPinned(stn) :
            (weight(stn, e) < 0 /\ weight(stn, e) < DomainLb(stn, target(stn, e)))
               => status' = "Inconsistent"]_vars

\* the edge origin -> n = -1 was found inconsistent with n pinned to 2
C19_Witness ==
    /\ Returned("Inconsistent")
    /\ \E e \in UserEdges(stn) :
          /\ stn.explanation = <<e>>
          /\ source(stn, e) = origin /\ weight(stn, e) = -1
          /\ Pinned(stn, target(stn, e))
          /\ DomainLb(stn, target(stn, e)) = 2

(* C20: on a network whose last propagate_all returned Consistent and on    *)
(* which nothing is pending, add_node(lb, ub) leaves the bounds of every    *)
(* other node as they are and the new node reports lb and ub; the           *)
(* propagate_all that follows returns Consistent and changes no bound.      *)
C20_AddNodeKeepsConsistent ==
    [][(status = "Consistent" /\ stn.pending_activations = <<>>
        /\ num_nodes(stn') = num_nodes(stn) + 1)
       => LET id == num_nodes(stn)
              r == propagate_all(stn')
          IN  /\ lb(stn', id) = DomainLb(stn', id)
              /\ ub(stn', id) = DomainUb(stn', id)
              /\ \A n \in Nodes(stn) : Bounds(stn')[n] = Bounds(stn)[n]
              /\ r.status = "Consistent"
              /\ Bounds(r.st) = Bounds(stn')]_vars

\* a node with domain [-1, 3] was added to a propagated network with an
\* active user edge, and propagate_all has returned Consistent since
C20_Witness ==
    /\ Returned("Consistent")
    /\ num_nodes(stn) = 3
    /\ lb(stn, 2) = -1 /\ ub(stn, 2) = 3
    /\ \A e \in Edges(stn) : target(stn, e) = 2 \/ source(stn, e) = 2 => active(stn, e)
    /\ \E e \in UserEdges(stn) : active(stn, e) /\ e < 5

(* C21: set_backtrack_point appends Level(L) and returns L, the new value   *)
(* of the level counter; undo_to_last_backtrack_point pops the trail down   *)
(* to and including the most recent marker, reverts every event above it    *)
(* (nodes and edges added, activations, queue entries, distance updates)    *)
(* and returns that marker's L; with no marker on the trail it reverts      *)
(* every event and returns None.                                            *)
LastMarker(trail) ==
    IF \E i \in DOMAIN trail : trail[i].tag = "Level"
    THEN CHOOSE i \in DOMAIN trail :
            /\ trail[i].tag = "Level"
            /\ \A j \in DOMAIN trail : trail[j].tag = "Level" => j <= i
    ELSE 0

\* the events recorded after the most recent marker
Above(trail) == SubSeq(trail, LastMarker(trail) + 1, Len(trail))

CountOf(evs, tag) == Cardinality({i \in DOMAIN evs : evs[i].tag = tag})

\* the distance of node n before the first update of it among evs, d if none
BeforeUpdates(evs, tag, n, d) ==
    LET ups == {i \in DOMAIN evs : evs[i].tag = tag /\ evs[i].node = n}
    IN  IF ups = {} THEN d
        ELSE evs[CHOOSE i \in ups : \A j \in ups : i <= j].previous_dist

Reverted(before, after) ==
    LET evs == Above(before.trail)
    IN  /\ num_nodes(after) = num_nodes(before) - CountOf(evs, "NodeAdded")
        /\ after.constraints =
              [e \in 1 .. (num_edges(before) - CountOf(evs, "EdgeAdded")) |->
                  [before.constraints[e] EXCEPT !.active =
                      @ /\ ~\E i \in DOMAIN evs :
                               evs[i].tag = "EdgeActivated" /\ evs[i].edge = e - 1]]
        /\ after.pending_activations =
              SubSeq(before.pending_activations, 1,
                     Len(before.pending_activations)
                        - CountOf(evs, "NewPendingActivation"))
        /\ \A n \in Nodes(after) :
              /\ fdist(after, n) = BeforeUpdates(evs, "ForwardUpdate", n, fdist(before, n))
              /\ bdist(after, n) = BeforeUpdates(evs, "BackwardUpdate", n, bdist(before, n))

C21_BacktrackLevels ==
    [][/\ stn'.level # stn.level
          => /\ stn'.level = stn.level + 1
             /\ stn'.trail = Append(stn.trail, Level(stn'.level))
       /\ last_op' = "undo"
          => /\ stn'.trail = SubSeq(stn.trail, 1, LastMarker(stn.trail) - 1)
             /\ undo_result' = IF LastMarker(stn.trail) = 0 THEN NoEdge
                               ELSE stn.trail[LastMarker(stn.trail)].lvl
             /\ Reverted(stn, stn')]_vars

\* two nested levels were undone innermost first: the undo that has just
\* returned 1 came after the level counter had reached 2, and the network
\* it returned to holds a user edge that is neither active nor pending
C21_Witness ==
    /\ last_op = "undo"
    /\ undo_result = 1
    /\ stn.level = 2
    /\ stn.trail # <<>>
    /\ \E e \in UserEdges(stn) : ~active(stn, e) /\ ~InQueue(stn, e)

(* C22: the origin is permanent and fixed: whatever the client did, undos   *)
(* without an outstanding backtrack point and failed propagations           *)
(* included, the network has at least one node, node 0 has its distance     *)
(* record and its two internal edges, and lb(origin) = ub(origin) = 0.      *)
C22_OriginFixed ==
    /\ num_nodes(stn) >= 1
    /\ Len(stn.distances) >= 1
    /\ num_edges(stn) >= 2
    /\ \A e \in {0, 1} : source(stn, e) = origin /\ target(stn, e) = origin
    /\ lb(stn, origin) = 0
    /\ ub(stn, origin) = 0

\* an undo without any backtrack point has just taken back everything since
\* construction, a propagation that returned Inconsistent included
C22_Witness ==
    /\ last_op = "undo"
    /\ undo_result = NoEdge
    /\ status = "Inconsistent"
    /\ stn.trail = <<>>
    /\ stn.level > 0
    /\ num_nodes(stn) = 1

(* C23: a call that violates a precondition panics before it changes        *)
(* anything: add_node with lb > ub, add_inactive_edge and add_edge with a    *)
(* source or target that is not a node, and bind of an atom that is already  *)
(* bound never go through, and at the panic num_nodes, num_edges, the trail, *)
(* the pending queue and both directions of the mapping are as before.       *)
NewlyBound == {a \in Atoms : mapping'.literal[a] # mapping.literal[a]}

C23_PanicsMutateNothing ==
    [][/\ status' = "Abort"
          => /\ num_nodes(stn') = num_nodes(stn)
             /\ num_edges(stn') = num_edges(stn)
             /\ stn'.trail = stn.trail
             /\ stn'.pending_activations = stn.pending_activations
       /\ driver'.pc = "panic"
          => /\ mapping'.literal = mapping.literal
             /\ mapping'.atoms = mapping.atoms
       /\ \A d \in Domains : d[1] > d[2] => add_node_or_panic(stn, d[1], d[2]).panic
       /\ \A m \in EdgeMenu :
            ~(m[1] \in Nodes(stn) /\ m[2] \in Nodes(stn))
               => /\ add_edge_or_panic(stn, m[1], m[2], m[3]).panic
                  /\ add_inactive_edge_or_panic(stn, m[1], m[2], m[3]).panic
       /\ num_nodes(stn') > num_nodes(stn)
          => lb(stn', num_nodes(stn)) <= ub(stn', num_nodes(stn))
       /\ num_edges(stn') > num_edges(stn)
          => \A e \in Edges(stn') : source(stn', e) \in Nodes(stn')
                                     /\ target(stn', e) \in Nodes(stn')
       /\ mapping' # mapping
          => /\ Cardinality(NewlyBound) = 1
             /\ \A a \in NewlyBound : mapping.literal[a] = NoLit]_vars

\* add_edge has panicked on a node that does not exist, on a network with
\* two nodes, a user edge and a non-empty trail, next to a mapping with a
\* bound atom
C23_Witness ==
    /\ status = "Abort"
    /\ last_op = "add_edge"
    /\ UserEdges(stn) # {}
    /\ num_nodes(stn) = 2
    /\ \E a \in Atoms : literal_of(mapping, a) # NoLit

(* C24: pending activations are processed in strict FIFO order.  A          *)
(* propagate_all takes the entries of the queue from the front, in the      *)
(* order mark_active put them there, and activates them in that order; when *)
(* it returns Inconsistent while processing e, every edge marked before e   *)
(* is active and propagated (no active edge can lower a distance in the     *)
(* network the entries before e led to) and every edge marked after e is    *)
(* still in the queue, in order, and inactive; when it returns Consistent   *)
(* the queue is empty.  A step that marks edges changes no bound and no     *)
(* active flag of what existed before.                                      *)
(* As stated, "every edge marked before e has been activated" includes the  *)
(* self loops: C24_StrictFifo.  The code dequeues a self loop of weight     *)
(* >= 0 and ignores it: C24_StrictFifoButSelfLoops.                         *)
IsSelfLoop(st, e) == source(st, e) = target(st, e)

\* the edges activated from st to st2, in the order of their activation
ActivatedSince(st, st2) ==
    LET evs == SelectSeq(SubSeq(st2.trail, Len(st.trail) + 1, Len(st2.trail)),
                         LAMBDA ev : ev.tag = "EdgeActivated")
    IN  [i \in DOMAIN evs |-> evs[i].edge]

\* no active edge can lower a distance
FullyPropagated(st) ==
    \A e \in Edges(st) :
        active(st, e) =>
            /\ fdist(st, target(st, e)) <= fdist(st, source(st, e)) + weight(st, e)
            /\ bdist(st, source(st, e)) <= bdist(st, target(st, e)) + weight(st, e)

\* the number of queue entries the step has taken
Taken == Len(stn.pending_activations) - Len(stn'.pending_activations)

FifoStep(before_e) ==
    LET q == stn.pending_activations
        k == Taken
    IN  /\ k >= 0
        /\ stn'.pending_activations = SubSeq(q, k + 1, Len(q))
        /\ ActivatedSince(stn, stn') =
              SelectSeq(SubSeq(q, 1, k), LAMBDA x : ~IsSelfLoop(stn, x))
        /\ \A i \in (k + 1) .. Len(q) : ~active(stn', q[i])
        /\ IF status' = "Consistent"
           THEN /\ k = Len(q)
                /\ \A i \in 1 .. k : before_e[q[i]]
                /\ FullyPropagated(stn')
           ELSE LET p == propagate_all([stn EXCEPT !.pending_activations =
                                                      SubSeq(q, 1, k - 1)])
                IN  /\ k >= 1
                    /\ \A i \in 1 .. (k - 1) : before_e[q[i]]
                    /\ p.status = "Consistent"
                    /\ FullyPropagated(p.st)
                    /\ p.st.trail = SubSeq(stn'.trail, 1, Len(p.st.trail))
                    /\ IsSelfLoop(stn, q[k]) \/ active(stn', q[k])

MarkStep ==
    /\ \A n \in Nodes(stn) : stn'.distances[n + 1] = stn.distances[n + 1]
    /\ \A e \in Edges(stn) : stn'.constraints[e + 1] = stn.constraints[e + 1]
    /\ \A e \in Edges(stn') \ Edges(stn) : ~active(stn', e)
    /\ stn.pending_activations =
          SubSeq(stn'.pending_activations, 1, Len(stn.pending_activations))

C25_NoEdgeTwice ==
    Returned("Inconsistent") =>
        \A i, j \in DOMAIN stn.explanation :
            stn.explanation[i] = stn.explanation[j] => i = j

(* C26: the mapping is consistent after any sequence of bind calls on       *)
(* distinct atoms: literal_of(a) = Some(l) exactly when a occurs in         *)
(* atoms_of(l); a bound atom occurs in one list, once; each bind puts its   *)
(* atom behind the atoms bound to the literal before, so atoms_of(l) is in  *)
(* bind order; before any bind every atoms_of is empty and every literal_of *)
(* is None, and a bind changes nothing for the other literals and atoms.    *)
Occurrences(m, a) ==
    {<<l, i>> \in Lits \X (1 .. NumAtoms) :
        i \in DOMAIN atoms_of(m, l) /\ atoms_of(m, l)[i] = a}

MappingConsistent(m) ==
    \A a \in Atoms :
        /\ \A l \in Lits :
              (literal_of(m, a) = l) <=> (a \in SeqToSet(atoms_of(m, l)))
        /\ Cardinality(Occurrences(m, a)) = IF literal_of(m, a) = NoLit THEN 0 ELSE 1

C26_MappingConsistent ==
    [][/\ MappingConsistent(mapping)
       /\ MappingConsistent(mapping')
       /\ driver.pc = "setup" /\ mapping' # mapping
          => \E a \in Atoms, l \in Lits :
                /\ literal_of(mapping, a) = NoLit
                /\ literal_of(mapping', a) = l
                /\ atoms_of(mapping', l) = Append(atoms_of(mapping, l), a)
                /\ \A b \in Atoms \ {a} : literal_of(mapping', b) = literal_of(mapping, b)
                /\ \A k \in Lits \ {l} : atoms_of(mapping', k) = atoms_of(mapping, k)
       /\ driver.pc # "setup" => mapping' = mapping]_vars

\* two atoms bound to one literal, in the order 2, 1 of their bind calls,
\* a third atom bound to another literal and the last atom never bound
C26_Witness ==
    /\ atoms_of(mapping, 1) = <<2, 1>>
    /\ literal_of(mapping, 3) = 3
    /\ atoms_of(mapping, -2) = <<>>
    /\ literal_of(mapping, UnboundAtom) = NoLit

(* C27: whatever calls were made on the heuristic, the variable that        *)
(* peek_next_var and pop_next_var return is the variable of the heap with   *)
(* the greatest activity and, among those of equal activity, the one with   *)
(* the lowest id; a pop returns what a peek just before it would return,    *)
(* and removes it.                                                          *)
InHeap(h) == {h.heap[i] : i \in DOMAIN h.heap}

Greatest(h) ==
    {v \in InHeap(h) : \A w \in InHeap(h) : h.activities[w] <= h.activities[v]}

Selected(h) ==
    IF h.heap = <<>> THEN NoVar
    ELSE CHOOSE v \in Greatest(h) : \A w \in Greatest(h) : v <= w

C27_HeapSelection ==
    /\ heap_peek(heur.heap) = Selected(heur)
    /\ pop_next_var(heur).returned = Selected(heur)
    /\ InHeap(pop_next_var(heur)) = InHeap(heur) \ {Selected(heur)}

\* the part about the activity alone
C27_GreatestActivity ==
    /\ heap_peek(heur.heap) \in Greatest(heur) \cup {NoVar}
    /\ pop_next_var(heur).returned = heap_peek(heur.heap)
    /\ Len(heur.heap) = Cardinality(InHeap(heur))

(* C28: the relaxation loop terminates.  Every update that a propagate_all  *)
(* accepts strictly lowers the forward or the backward distance of its      *)
(* node; no distance ever crosses its opposite (forward + backward >= 0 for *)
(* every node, also after an Inconsistent return, the violating update      *)
(* being rejected); so the number of updates of a call is at most the slack *)
(* forward + backward summed over the nodes before the call, which the call *)
(* lowers by at least one per update.                                       *)
IsUpdate(ev) == ev.tag \in {"ForwardUpdate", "BackwardUpdate"}

RECURSIVE Slack(_, _)
Slack(st, n) ==
    IF n = 0 THEN 0
    ELSE fdist(st, n - 1) + bdist(st, n - 1) + Slack(st, n - 1)

\* the distance that the update recorded as evs[i] stored
Stored(st, evs, i) ==
    LET later == {j \in DOMAIN evs : j > i /\ evs[j].tag = evs[i].tag
                                          /\ evs[j].node = evs[i].node}
    IN  IF later # {}
        THEN evs[CHOOSE j \in later : \A k \in later : j <= k].previous_dist
        ELSE IF evs[i].tag = "ForwardUpdate" THEN fdist(st, evs[i].node)
        ELSE bdist(st, evs[i].node)

UpdatesBounded ==
    LET evs == SubSeq(stn'.trail, Len(stn.trail) + 1, Len(stn'.trail))
        ups == {i \in DOMAIN evs : IsUpdate(evs[i])}
    IN  /\ SubSeq(stn'.trail, 1, Len(stn.trail)) = stn.trail
        /\ \A i \in ups : Stored(stn', evs, i) < evs[i].previous_dist
        /\ Cardinality(ups) <= Slack(stn, num_nodes(stn))
                                 - Slack(stn', num_nodes(stn'))

C28_RelaxationTerminates ==
    [][/\ last_op' = "propagate_all"
          => status' \in {"Consistent", "Inconsistent"} /\ UpdatesBounded
       /\ \A n \in Nodes(stn') : fdist(stn', n) + bdist(stn', n) >= 0]_vars

\* the loop alone, whatever becomes of the call once a violation is found
C28_LoopBounded ==
    [][/\ last_op' = "propagate_all" => UpdatesBounded
       /\ \A n \in Nodes(stn') : fdist(stn', n) + bdist(stn', n) >= 0]_vars

(* C29: cycle extraction always completes: whenever a violation is found,   *)
(* the walk over the cause pointers reaches the closing node or the origin, *)
(* meets no node without a cause and, in its second half, does not come     *)
(* back to the node it started from, so that propagate_all returns.         *)
C29_ExtractionCompletes ==
    last_op = "propagate_all" => status \in {"Consistent", "Inconsistent"}

----------------------------------------------------------------------------
(* C30: after theory.deduce() returned Inconsistent, the next operation the *)
(* driver invokes on the theory, if any, is backtrack() and never enable,   *)
(* deduce or set_backtrack_point: in lazy mode unconditionally, in eager    *)
(* mode provided that the engine answers the added clause with Conflict on  *)
(* the next propagate().                                                    *)

\* deduce() was the theory's last call and the driver is back at the head of
\* its loop: only the Inconsistent branch leads there
AfterInconsistent ==
    /\ driver.pc \in {"propagate", "lazy_solve"}
    /\ theory.calls # <<>>
    /\ theory.calls[Len(theory.calls)].op = "deduce"

\* the calls of the step are none at all (the driver returns), or begin with
\* backtrack()
BacktrackFirst ==
    \/ theory'.calls = <<>> /\ driver'.pc = "done"
    \/ theory'.calls # <<>> /\ theory'.calls[1].op = "backtrack"

C30_BacktrackAfterInconsistent ==
    [][/\ AfterInconsistent /\ driver.pc = "lazy_solve" => BacktrackFirst
       /\ AfterInconsistent /\ driver.pc = "propagate" /\ driver'.pc = "conflict"
              => theory'.calls = <<>>
       /\ driver.pc = "conflict" => BacktrackFirst]_vars

\* eager mode: a clause was added after an Inconsistent answer, the engine
\* answered with a conflict and the theory was backtracked first
C30_Witness ==
    /\ driver.pc = "propagate"
    /\ sat.num_learnt > 0
    /\ driver.num_backtracks > 0
    /\ theory.calls # <<>>
    /\ theory.calls[1].op = "backtrack"

\* lazy mode: the model that follows an Inconsistent answer is replayed after
\* a backtrack()
C30_LazyReplay ==
    /\ driver.pc = "lazy_deduce"
    /\ sat.num_learnt > 0
    /\ theory.calls[1].op = "backtrack"

\* the engine answers the clause added after Inconsistent with Conflict
C30_ClauseAnsweredWithConflict ==
    AfterInconsistent /\ driver.pc = "propagate"
        => sat_propagate(sat).tag = "Conflict"

----------------------------------------------------------------------------
(* C31: the pending-update flags are transient: whenever propagate_all      *)
(* returns Consistent, forward_pending_update and backward_pending_update   *)
(* are false on every node, also after an earlier Inconsistent result       *)
(* followed by undo_to_last_backtrack_point.                                *)

FlagsClear(st) ==
    \A n \in DOMAIN st.distances :
        /\ ~st.distances[n].forward_pending_update
        /\ ~st.distances[n].backward_pending_update

C31_FlagsTransient ==
    last_op = "propagate_all" /\ status = "Consistent" => FlagsClear(stn)

\* the flags are clear after every Consistent answer as long as no cycle was
\* ever extracted (the explanation buffer is never emptied by undo)
C31_ClearWithoutInconsistency ==
    last_op = "propagate_all" /\ status = "Consistent" /\ stn.explanation = <<>>
        => FlagsClear(stn)

----------------------------------------------------------------------------
(* C32: the adjacency lists mirror the active flags in every reachable      *)
(* state: an edge is in out[source] and in in[target], exactly once in each *)
(* and in activation order, if and only if its active flag is true; self    *)
(* loops are never active; and each undo of an EdgeActivated(e) event       *)
(* removes e itself, the last entry of both lists at that moment.           *)

\* the edges of the EdgeActivated events of the trail, oldest first
ActivationOrder(st) ==
    LET evs == SelectSeq(st.trail, LAMBDA ev : ev.tag = "EdgeActivated")
    IN  [i \in DOMAIN evs |-> evs[i].edge]

OnceEach(q) == \A i, j \in DOMAIN q : q[i] = q[j] => i = j

ListsMirrorFlags(st) ==
    /\ \A n \in 0 .. (num_nodes(st) - 1) :
          /\ st.active_forward_edges[n + 1] =
                 SelectSeq(ActivationOrder(st), LAMBDA e : source(st, e) = n)
          /\ st.active_backward_edges[n + 1] =
                 SelectSeq(ActivationOrder(st), LAMBDA e : target(st, e) = n)
          /\ OnceEach(st.active_forward_edges[n + 1])
          /\ OnceEach(st.active_backward_edges[n + 1])
    /\ \A e \in 0 .. (num_edges(st) - 1) :
          /\ active(st, e) <=>
                 e \in SeqToSet(st.active_forward_edges[source(st, e) + 1])
          /\ active(st, e) <=>
                 e \in SeqToSet(st.active_backward_edges[target(st, e) + 1])
          /\ source(st, e) = target(st, e) => ~active(st, e)

LastOf(q) == IF q = <<>> THEN NoEdge ELSE q[Len(q)]

\* undoing the whole trail event by event, every EdgeActivated(e) finds e at
\* the end of out[source(e)] and of in[target(e)]
RECURSIVE UndoRemovesItself(_)
UndoRemovesItself(st) ==
    IF st.trail = <<>> THEN TRUE
    ELSE LET ev == st.trail[Len(st.trail)]
             s0 == [st EXCEPT !.trail = Pop(@)]
         IN  IF ev.tag = "Level" THEN UndoRemovesItself(s0)
             ELSE /\ ev.tag = "EdgeActivated" =>
                        /\ LastOf(st.active_forward_edges[source(st, ev.edge) + 1])
                               = ev.edge
                        /\ LastOf(st.active_backward_edges[target(st, ev.edge) + 1])
                               = ev.edge
                  /\ UndoRemovesItself(UndoEvent(s0, ev))

C32_AdjacencyMirrorsFlags ==
    ListsMirrorFlags(stn) /\ UndoRemovesItself(stn)

\* an undo that followed an inconsistency took the edges of the cycle out of
\* the lists and left another constraint of the caller active
C32_Witness ==
    /\ last_op = "undo"
    /\ status = "Inconsistent"
    /\ undo_result # NoEdge
    /\ Len(stn.explanation) >= 2
    /\ \E e \in SeqToSet(stn.explanation) :
          e >= num_edges(stn) \/ ~active(stn, e)
    /\ \E e \in UserEdges(stn) : active(stn, e)

----------------------------------------------------------------------------
(* C33: on a network whose previous propagate_all returned Consistent, when *)
(* propagate_all returns Inconsistent while propagating the newly activated *)
(* edge e, the explanation contains e itself, even when the violation is    *)
(* detected on the relaxation of a different edge.                          *)

\* the queue entry propagate_all was processing when it returned
Culprit == stn.pending_activations[Taken]

C33_ExplanationHasCulprit ==
    [][(/\ status = "Consistent"
        /\ last_op' = "propagate_all"
        /\ status' = "Inconsistent"
        /\ ~IsSelfLoop(stn, Culprit))
           => /\ active(stn', Culprit)
              /\ LastOf(ActivationOrder(stn')) = Culprit
              /\ Culprit \in SeqToSet(stn'.explanation)]_vars

\* the violation was detected on the relaxation of another edge than the one
\* activated last, which is in the explanation
C33_Witness ==
    /\ last_op = "propagate_all"
    /\ status = "Inconsistent"
    /\ Len(stn.explanation) >= 2
    /\ stn.explanation[1] # LastOf(ActivationOrder(stn))
    /\ LastOf(ActivationOrder(stn)) \in SeqToSet(stn.explanation)

----------------------------------------------------------------------------
(* C34: activation is idempotent: marking an edge that is already active,   *)
(* or marking the same inactive edge several times before one               *)
(* propagate_all, and then propagate_all leaves the edge exactly once in    *)
(* the adjacency lists, records a single EdgeActivated event, returns the   *)
(* same status and leaves every lb/ub as a single activation would; a later *)
(* undo still returns the network to the state of the backtrack point.      *)

\* the queue without the entries of active edges and without repetitions
RECURSIVE FirstMarks(_, _, _)
FirstMarks(st, q, seen) ==
    IF q = <<>> THEN <<>>
    ELSE IF active(st, Head(q)) \/ Head(q) \in seen
         THEN FirstMarks(st, Tail(q), seen)
         ELSE <<Head(q)>> \o FirstMarks(st, Tail(q), seen \cup {Head(q)})

MarkedOnce(st) ==
    [st EXCEPT !.pending_activations = FirstMarks(st, @, {})]

SameActivation(a, b) ==
    /\ a.constraints = b.constraints
    /\ a.active_forward_edges = b.active_forward_edges
    /\ a.active_backward_edges = b.active_backward_edges
    /\ ActivationOrder(a) = ActivationOrder(b)
    /\ Bounds(a) = Bounds(b)

BackAt(st, snap) ==
    /\ num_nodes(st) = snap.num_nodes
    /\ st.constraints = snap.constraints
    /\ Bounds(st) = snap.bounds
    /\ st.pending_activations = snap.pending
    /\ ListsMirrorFlags(st)

C34_IdempotentActivation ==
    [][last_op' = "propagate_all" =>
          LET once == propagate_all(MarkedOnce(stn))
          IN  /\ status' = once.status
              /\ SameActivation(stn', once.st)
              /\ OnceEach(ActivationOrder(stn'))
              /\ ListsMirrorFlags(stn')
              /\ Len(snaps) > 0 =>
                     BackAt(undo_to_last_backtrack_point(stn').st,
                            snaps[Len(snaps)])]_vars

\* propagate_all has run above a backtrack point on a network where more
\* marks are on record than there are edges to mark
C34_Witness ==
    /\ last_op = "propagate_all"
    /\ Len(snaps) > 0
    /\ Activations(stn) > num_edges(stn) - 2
    /\ \E e \in UserEdges(stn) : active(stn, e)
====
